---- MODULE Spec2Model ----
(***************************************************************************)
(* Model of the wormhole batch scheduler (main.Run), the per-host playbook *)
(* run (Playbook.Run), the inventory's outcome bookkeeping                 *)
(* (Server.SetError, Inventory.GetAll*Servers), the process around Run     *)
(* (main, InitGracefulStop), one remote execution (connection.Exec with    *)
(* its Session, watcher and side task) and one Action.Run (file, apt,      *)
(* shell) made of such executions.                                         *)
(*                                                                         *)
(* Spec        Run and the per-host goroutines                             *)
(* SpecMain    Spec with the signal, the action deadlines and main's exit  *)
(* SpecInv     SetError calls on an inventory                              *)
(* SpecExec    one call of connection.Exec; SpecExecFair adds fairness of  *)
(*             the watcher goroutine                                       *)
(* SpecAction  one call of Action.Run                                      *)
(* SpecFair    Run under fair scheduling of the goroutines                 *)
(* SpecBoot    the start of main: NewConfing, the loads, then Run          *)
(* SpecValidate   one call of ValidateAction.Run                           *)
(* SpecUnmarshal  one call of actions.UnmarshalAction                      *)
(* SpecDecode  Task.UnmarshalYAML, made twice on one task                  *)
(*                                                                         *)
(* Every goroutine takes one step at a time; all interleavings are         *)
(* explored.  The ssh library, the remote command and the file system are  *)
(* the environment: each call returns nil or an error, chosen              *)
(* nondeterministically.                                                   *)
(***************************************************************************)
EXTENDS Integers, Sequences, FiniteSets, TLC

\* Largest inventory explored.
MaxHosts == 3
\* Largest value of conf.MaxConcurrentConnections explored.
MaxConns == 3
\* Largest inventory and largest MaxConcurrentConnections explored when the
\* signal, the deadlines and main's exit are explored too.
MainMaxHosts == 2
MainMaxConns == 2
\* Largest number of SetError calls on one server explored on their own.
MaxSetErrors == 2
\* Largest size, in bytes, of a file that a file action copies.
MaxFileSize == 2
\* Largest number of packages of an apt action.
MaxPkgs == 1

VARIABLES
    inventory,    \* inventory.Inventory: sequence of Server records
    conf,         \* config.Config (the fields Run reads)
    playbook,     \* playbook.Playbook: [Tasks |-> sequence of Task]
    pc,           \* position of the scheduler goroutine inside Run
    start,        \* Run: loop variable start (0-based, as in the source)
    end,          \* Run: loop variable end (exclusive, as in the source)
    i,            \* Run: index of the inner range loop in progress (1-based)
    connections,  \* Run: the slice's connections, each named by its host index
    wg,           \* sync.WaitGroup counter of the slice
    client,       \* per host: "none" before the dial, "dial error" when NewConnection
                  \* failed, else the state of the connection's ssh client
    gpc,          \* per host: position of the goroutine running Playbook.Run
    pos,          \* per host: <<task index, action index>> of Playbook.Run's loops
    ran,          \* per host: the Action.Run calls made, in call order, with results
    dials,        \* per host: number of NewConnection calls
    launches,     \* per host: number of `go playbook.Run` statements executed
    setErrors,    \* per host: number of Server.SetError calls
    dones,        \* per host: number of wg.Done calls
    closes,       \* per host: number of Close calls on the connection's ssh client
    slices        \* the <<start, end>> pairs of the slice iterations so far

schedVars == <<pc, start, end, i, connections, wg>>
hostVars  == <<client, gpc, pos, ran, dials, launches, setErrors, dones, closes>>

\* One call of connection.Exec and the goroutines it involves.
VARIABLES
    withTerminal, \* Exec: the withTerminal argument
    ctxDone,      \* the ctx given to Exec is cancelled or past its deadline
    sess,         \* the Session: sshSess, stdin, onceStdinCloser, quit channel
    ex,           \* Exec's frame: position, local err, errGroup, returned error
    wpc,          \* position of the watcher goroutine started by newSession
    cp,           \* the side task (copyFile in an errgroup): position and error
    cmd,          \* the remote command: state, exit error, and whether ctx was
                  \* cancelled while it was running
    stdinOps,     \* the writes to stdin and the CloseStdin calls, in order
    counts        \* numbers of calls: wait, errGroup.Wait, close(quitChan),
                  \* sshSess.Close, client.Close

\* The process around Run, and the contexts.
VARIABLES
    ctx,          \* main: the context made by InitGracefulStop
    actionCtx     \* per host: the contexts Playbook.Run has derived, one per
                  \* action started, in order

\* The start of main, and the computations looked at on their own.
VARIABLES
    maxConcurrentConnections, \* NewConfing: the parsed value of the flag (*uint)
    val,          \* one call of ValidateAction.Run: position, attempts, result
    dec           \* one call of Task.UnmarshalYAML: the raw task, the keys still
                  \* to visit, the Task built so far, the result

otherVars == <<maxConcurrentConnections, val, dec>>
mainVars == <<ctx, actionCtx, otherVars>>

\* One call of Action.Run, which makes one or more calls of Exec.
VARIABLES
    act           \* the action, the number of the Exec in progress, the Execs
                  \* finished so far and the value Run returned

runVars == <<inventory, conf, playbook, schedVars, hostVars, slices, mainVars>>
execVars == <<withTerminal, ctxDone, sess, ex, wpc, cp, cmd, stdinOps, counts>>

vars == <<inventory, conf, playbook, schedVars, hostVars, slices, mainVars,
          execVars, act>>

\* All the variables but val, and all but dec.
exceptVal == <<inventory, conf, playbook, schedVars, hostVars, slices, ctx,
               actionCtx, maxConcurrentConnections, dec, execVars, act>>
exceptDec == <<inventory, conf, playbook, schedVars, hostVars, slices, ctx,
               actionCtx, maxConcurrentConnections, val, execVars, act>>

----------------------------------------------------------------------------
\* Error values.  Go's nil error and the two kinds of error this part of the
\* program records on a server.

Nil == [kind |-> "nil", id |-> 0]

\* main.Run: fmt.Errorf("Failed to connect to server %q: %s", ...)
ConnectError(h) == [kind |-> "connect", id |-> h]

\* The error value returned by the Run of the action with identity a.
ActionError(a) == [kind |-> "action", id |-> a]

\* Marks, in the record of calls, an Action.Run that has not returned yet.
Running == [kind |-> "running", id |-> 0]

----------------------------------------------------------------------------
\* Inventory

Server(h) == [Host |-> h, Port |-> 0, playbookErr |-> Nil]

Hosts == DOMAIN inventory

\* Server.GetAddress: host plus the port, 22 when the port is unset.
GetAddress(s) == IF s.Port # 0 THEN <<s.Host, s.Port>> ELSE <<s.Host, 22>>

\* Server.SetError on the server at index h of inventory inv.
SetError(inv, h, err) == [inv EXCEPT ![h].playbookErr = err]

\* Server.GetError
GetError(s) == s.playbookErr

\* The servers of an inventory.
Servers(inv) == {inv[k] : k \in DOMAIN inv}

\* Inventory.GetAllServers with a non-nil predicate, given as a Boolean
\* function on the servers: the addresses of the servers that satisfy
\* predFn, in inventory order.
GetAllServers(inv, predFn) ==
    LET Keep(s) == predFn[s]
        selected == SelectSeq(inv, Keep)
    IN  [k \in DOMAIN selected |-> GetAddress(selected[k])]

\* Mutant of IsCompleted: every server counts as completed.
IsCompletedAlways(inv) == [s \in Servers(inv) |-> TRUE]

\* func(s *Server) bool { return s.playbookErr == nil }
IsCompleted(inv) == [s \in Servers(inv) |-> s.playbookErr = Nil]

\* func(s *Server) bool { return s.playbookErr != nil }
IsFailed(inv) == [s \in Servers(inv) |-> s.playbookErr # Nil]

GetAllCompletedServers(inv) == GetAllServers(inv, IsCompleted(inv))

GetAllFailedServers(inv) == GetAllServers(inv, IsFailed(inv))

----------------------------------------------------------------------------
\* Playbook

Task(actions) == [Name |-> "task", Actions |-> actions]

\* The playbooks explored.  Actions are named by distinct numbers.
Playbooks ==
    { [Tasks |-> <<>>],
      [Tasks |-> <<Task(<<1>>)>>],
      [Tasks |-> <<Task(<<1, 2>>), Task(<<3>>)>>],
      [Tasks |-> <<Task(<<1>>), Task(<<2>>)>>] }

\* The position <<t, a>> is in range: task t exists and has an action a.
InRange(p, t, a) == t <= Len(p.Tasks) /\ a <= Len(p.Tasks[t].Actions)

\* Mutant of LoopPos: a task's actions are visited last to first.
RECURSIVE LoopPosReversed(_, _, _)
LoopPosReversed(p, t, a) ==
    IF t > Len(p.Tasks) THEN <<Len(p.Tasks) + 1, 1>>
    ELSE IF a > Len(p.Tasks[t].Actions) THEN LoopPosReversed(p, t + 1, 1)
    ELSE <<t, Len(p.Tasks[t].Actions) + 1 - a>>

\* Playbook.Run's nested range loops: the first position at or after <<t, a>>
\* that names an action, or <<Len(Tasks) + 1, 1>> when the loops are over.
RECURSIVE LoopPos(_, _, _)
LoopPos(p, t, a) ==
    IF t > Len(p.Tasks) THEN <<Len(p.Tasks) + 1, 1>>
    ELSE IF a > Len(p.Tasks[t].Actions) THEN LoopPos(p, t + 1, 1)
    ELSE <<t, a>>

----------------------------------------------------------------------------
\* Actions: the values of FileAction, AptAction and ShellAction explored.
\* A path is the sequence of its elements.

FileActions ==
    { [type |-> "file", Dest |-> d.dest, Mode |-> d.mode, Owner |-> o, Group |-> g] :
        d \in { [dest |-> <<"motd">>, mode |-> ""],
                [dest |-> <<"etc", "motd">>, mode |-> "0600"] },
        o \in {"", "root"}, g \in {"", "adm"} }

AptActions ==
    { [type |-> "apt", State |-> "install", Pkg |-> [k \in 1..n |-> k]] :
        n \in 0..MaxPkgs }

ShellActions == { [type |-> "shell"] }

Actions == FileActions \cup AptActions \cup ShellActions

\* No action: Exec is looked at on its own, called by any caller.
NoAction == [a |-> [type |-> "none"], n |-> 1, log |-> <<>>,
             returned |-> FALSE, ret |-> {}]

\* filepath.Base: the last element of the path, "." for the empty path.
Base(path) == IF path = <<>> THEN "." ELSE path[Len(path)]

\* Mutant of FileMode: the mode is passed on as the action gives it.
FileModeAsGiven(mode) == mode

\* FileAction.Run: `mode := a.Mode; if mode == "" { mode = "0644" }`
FileMode(mode) == IF mode = "" THEN "0644" ELSE mode

\* fmt.Fprintln of operands already formatted: the operands separated by
\* spaces, then a newline.
RECURSIVE Fprintln(_)
Fprintln(operands) ==
    IF operands = <<>> THEN "\n"
    ELSE IF Len(operands) = 1 THEN operands[1] \o "\n"
    ELSE operands[1] \o " " \o Fprintln(Tail(operands))

\* copyFile: fmt.Fprintln(sess.Stdin(), "C"+mode, size, filepath.Base(dest))
Header(mode, size, dest) ==
    Fprintln(<<"C" \o mode, ToString(size), Base(dest)>>)

\* The side task before it is launched, and the arguments of copyFile.
NoCopy == [pc |-> "none", err |-> FALSE, mode |-> "", size |-> 0, dest |-> <<>>]

----------------------------------------------------------------------------
\* connection.Exec: the state before the call.

NoCalls == [wait |-> 0, asyncWait |-> 0, quit |-> 0, sessClose |-> 0,
            clientClose |-> 0]

\* No session exists yet; Exec is about to be called with the given
\* withTerminal argument.
ExecStart(terminal) ==
    /\ withTerminal = terminal
    /\ ctxDone = FALSE
    /\ sess = [sshSess |-> "none", stdin |-> "none", onceDone |-> FALSE,
               quitChan |-> "nil", created |-> FALSE]
    /\ ex = [pc |-> "NewSession", err |-> {}, errGroup |-> FALSE, ret |-> {}]
    /\ wpc = "none"
    /\ cp = NoCopy
    /\ cmd = [state |-> "none", err |-> FALSE, interrupted |-> FALSE]
    /\ stdinOps = <<>>
    /\ counts = NoCalls

\* No call of ValidateAction.Run and no decoding of a task is in progress.
NoValidate == [pc |-> "none"]
NoDecode == [pc |-> "none"]

\* The flag is the one the Config was made from; nothing else is going on.
OthersIdle ==
    /\ maxConcurrentConnections = conf.MaxConcurrentConnections
    /\ val = NoValidate
    /\ dec = NoDecode

----------------------------------------------------------------------------
\* Initial state: any inventory of up to MaxHosts servers with no recorded
\* error, any accepted concurrency limit, any of the playbooks; Run is about
\* to be called.

Init ==
    /\ \E n \in 0..MaxHosts : inventory = [h \in 1..n |-> Server(h)]
    /\ \E m \in 1..MaxConns : conf = [MaxConcurrentConnections |-> m]
    /\ playbook \in Playbooks
    /\ pc = "for"
    /\ start = 0
    /\ end = 0
    /\ i = 1
    /\ connections = <<>>
    /\ wg = 0
    /\ client = [h \in Hosts |-> "none"]
    /\ gpc = [h \in Hosts |-> "idle"]
    /\ pos = [h \in Hosts |-> <<1, 1>>]
    /\ ran = [h \in Hosts |-> <<>>]
    /\ dials = [h \in Hosts |-> 0]
    /\ launches = [h \in Hosts |-> 0]
    /\ setErrors = [h \in Hosts |-> 0]
    /\ dones = [h \in Hosts |-> 0]
    /\ closes = [h \in Hosts |-> 0]
    /\ slices = <<>>
    /\ ctx = [done |-> FALSE, inRun |-> FALSE]
    /\ actionCtx = [h \in Hosts |-> <<>>]
    /\ OthersIdle
    /\ act = NoAction
    /\ ExecStart(FALSE)

----------------------------------------------------------------------------
\* The scheduler goroutine: main.Run

\* Mutant of SliceEnd: the slice is one server too long.
SliceEndOffByOne(s, m, n) == IF s + m + 1 > n THEN n ELSE s + m + 1

\* end := start + MaxConcurrentConnections; if end > len(inventory) { end = len(inventory) }
SliceEnd(s, m, n) == IF s + m > n THEN n ELSE s + m

\* Mutant of NextStart: the next slice starts one server too far.
NextStartSkips(s, m) == s + m + 1

\* The loop's post statement: start += conf.MaxConcurrentConnections
NextStart(s, m) == s + m

\* inventory[s:e] is a legal slice expression of an inventory of n servers;
\* otherwise the expression panics.
SliceInRange(s, e, n) == 0 <= s /\ s <= e /\ e <= n

\* The for loop's condition holds: a slice iteration begins.  The range loop
\* over inventory[start:end] is about to visit the server at index start + 1.
SliceBegin ==
    /\ pc = "for"
    /\ start < Len(inventory)
    /\ end' = SliceEnd(start, conf.MaxConcurrentConnections, Len(inventory))
    /\ SliceInRange(start, end', Len(inventory))
    /\ slices' = Append(slices, <<start, end'>>)
    /\ connections' = <<>>
    /\ i' = start + 1
    /\ pc' = "dial"
    /\ UNCHANGED <<inventory, conf, playbook, start, wg, hostVars>>
    /\ UNCHANGED <<execVars, act, mainVars>>

\* The for loop's condition fails: Run returns.
RunReturn ==
    /\ pc = "for"
    /\ ~(start < Len(inventory))
    /\ pc' = "done"
    /\ UNCHANGED <<inventory, conf, playbook, start, end, i, connections, wg,
                   hostVars, slices>>
    /\ UNCHANGED <<execVars, act, mainVars>>

\* Mutant of DialFailed: the error is logged but not recorded on the server.
DialFailedNotRecorded ==
    /\ client' = [client EXCEPT ![i] = "dial error"]
    /\ i' = i + 1
    /\ UNCHANGED <<inventory, setErrors, connections>>

\* Mutant of DialFailed: the dial loop is left (break) instead of continued.
DialFailedBreak ==
    /\ inventory' = SetError(inventory, i, ConnectError(i))
    /\ setErrors' = [setErrors EXCEPT ![i] = @ + 1]
    /\ client' = [client EXCEPT ![i] = "dial error"]
    /\ i' = end + 1
    /\ UNCHANGED connections

\* NewConnection returned an error: server.SetError(err); continue
DialFailed ==
    /\ inventory' = SetError(inventory, i, ConnectError(i))
    /\ setErrors' = [setErrors EXCEPT ![i] = @ + 1]
    /\ client' = [client EXCEPT ![i] = "dial error"]
    /\ i' = i + 1
    /\ UNCHANGED connections

\* NewConnection returned a connection: connections = append(connections, conn)
DialSucceeded ==
    /\ client' = [client EXCEPT ![i] = "open"]
    /\ connections' = Append(connections, i)
    /\ i' = i + 1
    /\ UNCHANGED <<inventory, setErrors>>

\* One iteration of `for _, server := range inventory[start:end]`.
Dial ==
    /\ pc = "dial"
    /\ i <= end
    /\ dials' = [dials EXCEPT ![i] = @ + 1]
    /\ \/ DialFailed
       \/ DialSucceeded
    /\ UNCHANGED <<conf, playbook, pc, start, end, wg, gpc, pos, ran, launches,
                   dones, closes, slices>>
    /\ UNCHANGED <<execVars, act, mainVars>>

\* After the dial loop: `if len(connections) == 0 { continue }`
NoConnections ==
    /\ pc = "dial"
    /\ i > end
    /\ Len(connections) = 0
    /\ start' = NextStart(start, conf.MaxConcurrentConnections)
    /\ pc' = "for"
    /\ UNCHANGED <<inventory, conf, playbook, end, i, connections, wg, hostVars,
                   slices>>
    /\ UNCHANGED <<execVars, act, mainVars>>

\* After the dial loop, with connections: wg.Add(len(connections))
WgAdd ==
    /\ pc = "dial"
    /\ i > end
    /\ Len(connections) # 0
    /\ wg' = wg + Len(connections)
    /\ i' = 1
    /\ pc' = "launch"
    /\ UNCHANGED <<inventory, conf, playbook, start, end, connections, hostVars,
                   slices>>
    /\ UNCHANGED <<execVars, act, mainVars>>

\* One iteration of `for _, conn := range connections { go playbook.Run(...) }`
Launch ==
    /\ pc = "launch"
    /\ i <= Len(connections)
    /\ gpc' = [gpc EXCEPT ![connections[i]] = "loop"]
    /\ launches' = [launches EXCEPT ![connections[i]] = @ + 1]
    /\ i' = i + 1
    /\ UNCHANGED <<inventory, conf, playbook, pc, start, end, connections, wg,
                   client, pos, ran, dials, setErrors, dones, closes, slices>>
    /\ UNCHANGED <<execVars, act, mainVars>>

\* The launch loop is over: the scheduler reaches wg.Wait().
LaunchDone ==
    /\ pc = "launch"
    /\ i > Len(connections)
    /\ pc' = "wait"
    /\ UNCHANGED <<inventory, conf, playbook, start, end, i, connections, wg,
                   hostVars, slices>>
    /\ UNCHANGED <<execVars, act, mainVars>>

\* Mutant of WaitReturns: wg.Wait() does not block.
WaitReturnsEarly == TRUE

\* wg.Wait() returns when the counter is zero.
WaitReturns == wg = 0

WgWait ==
    /\ pc = "wait"
    /\ WaitReturns
    /\ i' = 1
    /\ pc' = "close"
    /\ UNCHANGED <<inventory, conf, playbook, start, end, connections, wg,
                   hostVars, slices>>
    /\ UNCHANGED <<execVars, act, mainVars>>

\* One iteration of `for _, conn := range connections { err := conn.Close() ... }`.
\* Close returns nil or an error; an error is logged and the loop goes on.
\* Either way Close has been called on the client.
Close ==
    /\ pc = "close"
    /\ i <= Len(connections)
    /\ \E err \in BOOLEAN :
         client' = [client EXCEPT ![connections[i]] =
                        IF err THEN "closed with error" ELSE "closed"]
    /\ closes' = [closes EXCEPT ![connections[i]] = @ + 1]
    /\ i' = i + 1
    /\ UNCHANGED <<inventory, conf, playbook, pc, start, end, connections, wg,
                   gpc, pos, ran, dials, launches, setErrors, dones, slices>>
    /\ UNCHANGED <<execVars, act, mainVars>>

\* The close loop is over: the slice iteration ends and start advances.
SliceDone ==
    /\ pc = "close"
    /\ i > Len(connections)
    /\ start' = NextStart(start, conf.MaxConcurrentConnections)
    /\ pc' = "for"
    /\ UNCHANGED <<inventory, conf, playbook, end, i, connections, wg, hostVars,
                   slices>>
    /\ UNCHANGED <<execVars, act, mainVars>>

----------------------------------------------------------------------------
\* Contexts.  A context derived by context.WithTimeout is a record: its
\* parent (0 names main's ctx, k the k-th context derived on the same
\* host), whether its cancel function has been called, whether its deadline
\* has passed, and whether main's ctx was already cancelled when it was
\* derived.

\* Mutant of CtxParent: each context is derived from the one before it.
CtxParentPrevious(k) == k - 1

\* Playbook.Run: `ctx, cancel := context.WithTimeout(ctx, conf.ExecTimeout)`
\* declares a new ctx in the loop body; the ctx on the right is the
\* function's parameter, in every iteration.
CtxParent(k) == 0

\* context.WithTimeout for the k-th action of a host.
WithTimeout(k) ==
    [parent |-> CtxParent(k), released |-> FALSE, expired |-> FALSE,
     lateStart |-> ctx.done]

\* ctx.Done() is closed: for the k-th context derived on host h (0: main's
\* ctx), cancelled itself, past its deadline, or with a parent that is done.
RECURSIVE CtxIsDone(_, _)
CtxIsDone(h, k) ==
    IF k = 0 THEN ctx.done
    ELSE \/ actionCtx[h][k].released
         \/ actionCtx[h][k].expired
         \/ CtxIsDone(h, actionCtx[h][k].parent)

----------------------------------------------------------------------------
\* connection.Exec's result.

\* Mutant of ExecResult: nil is returned when nothing failed.
ExecResultIgnoresCtx(err, cancelled) == err

\* Mutant of ExecResult: the context's error is tested first and replaces err.
ExecResultCtxFirst(err, cancelled) ==
    IF cancelled THEN {"ctx"} ELSE err

\* `if err != nil { return err }; return ctx.Err()`
ExecResult(err, cancelled) ==
    IF err # {} THEN err ELSE IF cancelled THEN {"ctx"} ELSE {}

----------------------------------------------------------------------------
\* The per-host goroutines: Playbook.Run(ctx, wg, conn, conf), where conn is
\* the connection of host h.

\* The action the loops of host h stand at.
ActionAt(p, t, a) == p.Tasks[t].Actions[a]

\* The loops reach an action: its context is derived and
\* err := a.Run(ctx, conn, conf) is called.
ActionStart(h) ==
    /\ gpc[h] = "loop"
    /\ LET at == LoopPos(playbook, pos[h][1], pos[h][2]) IN
         /\ InRange(playbook, at[1], at[2])
         /\ pos' = [pos EXCEPT ![h] = at]
         /\ ran' = [ran EXCEPT ![h] =
                      Append(@, [action |-> ActionAt(playbook, at[1], at[2]),
                                 result |-> Running])]
    /\ actionCtx' = [actionCtx EXCEPT ![h] = Append(@, WithTimeout(Len(@) + 1))]
    /\ gpc' = [gpc EXCEPT ![h] = "run"]
    /\ UNCHANGED <<inventory, conf, playbook, schedVars, client, dials, launches,
                   setErrors, dones, closes, slices>>
    /\ UNCHANGED <<execVars, act, ctx, otherVars>>

\* The record of calls of a host, with the result of the last call filled in.
Returned(calls, err) == [calls EXCEPT ![Len(calls)].result = err]

\* Mutant of ActionFailed: the error is recorded on every server of the slice.
ActionFailedSharedRecord(h, err) ==
    /\ inventory' = [s \in DOMAIN inventory |->
                        IF \E k \in DOMAIN connections : connections[k] = s
                        THEN [inventory[s] EXCEPT !.playbookErr = err]
                        ELSE inventory[s]]
    /\ setErrors' = [setErrors EXCEPT ![h] = @ + 1]
    /\ gpc' = [gpc EXCEPT ![h] = "deferred"]
    /\ UNCHANGED pos

\* Mutant of ActionFailed: the error is recorded but the loops go on.
ActionFailedNoReturn(h, err) ==
    /\ inventory' = SetError(inventory, h, err)
    /\ setErrors' = [setErrors EXCEPT ![h] = @ + 1]
    /\ pos' = [pos EXCEPT ![h] = <<@[1], @[2] + 1>>]
    /\ gpc' = [gpc EXCEPT ![h] = "loop"]

\* a.Run returned a non-nil error: conn.SetError(err); return
ActionFailed(h, err) ==
    /\ inventory' = SetError(inventory, h, err)
    /\ setErrors' = [setErrors EXCEPT ![h] = @ + 1]
    /\ gpc' = [gpc EXCEPT ![h] = "deferred"]
    /\ UNCHANGED pos

\* a.Run returned nil: the inner loop moves to the next action.
ActionSucceeded(h) ==
    /\ pos' = [pos EXCEPT ![h] = <<@[1], @[2] + 1>>]
    /\ gpc' = [gpc EXCEPT ![h] = "loop"]
    /\ UNCHANGED <<inventory, setErrors>>

\* newSession, called by Exec inside a.Run on host h: when
\* client.NewSession() fails, newSession calls client.Close() before it
\* returns the error.
NewSessionFailed(h) ==
    /\ client' = [client EXCEPT ![h] = "closed"]
    /\ closes' = [closes EXCEPT ![h] = @ + 1]

\* The error a.Run returns for what its last Exec returned.
ActionResult(a, ret) == IF ret = {} THEN Nil ELSE ActionError(a)

\* a.Run returns on host h and cancel() releases the action's context.
\* What a.Run returns is what its Exec returned: the failure of what was in
\* flight, if any, else the error of the action's context, if it is done,
\* else nil.  The error may be that of an Exec in which newSession could
\* not get a session.
ActionReturn(h) ==
    /\ gpc[h] = "run"
    /\ \E inFlight \in {{}, {"cmd"}} :
         LET k == Len(ran[h])
             err == ActionResult(ran[h][k].action,
                                 ExecResult(inFlight, CtxIsDone(h, k)))
         IN  /\ ran' = [ran EXCEPT ![h] = Returned(@, err)]
             /\ IF err # Nil
                THEN /\ ActionFailed(h, err)
                     /\ \/ NewSessionFailed(h)
                        \/ UNCHANGED <<client, closes>>
                ELSE /\ ActionSucceeded(h)
                     /\ UNCHANGED <<client, closes>>
    /\ actionCtx' = [actionCtx EXCEPT ![h][Len(ran[h])].released = TRUE]
    /\ UNCHANGED <<conf, playbook, schedVars, dials, launches, dones, slices>>
    /\ UNCHANGED <<execVars, act, ctx, otherVars>>

\* The loops are over: Playbook.Run returns normally.
LoopsDone(h) ==
    /\ gpc[h] = "loop"
    /\ LET at == LoopPos(playbook, pos[h][1], pos[h][2]) IN
         /\ ~InRange(playbook, at[1], at[2])
         /\ pos' = [pos EXCEPT ![h] = at]
    /\ gpc' = [gpc EXCEPT ![h] = "deferred"]
    /\ UNCHANGED <<inventory, conf, playbook, schedVars, client, ran, dials,
                   launches, setErrors, dones, closes, slices>>
    /\ UNCHANGED <<execVars, act, mainVars>>

\* Mutant of WgDone: the goroutine returns without signalling the wait group.
WgDoneMissing(h) ==
    /\ gpc[h] = "deferred"
    /\ gpc' = [gpc EXCEPT ![h] = "returned"]
    /\ UNCHANGED <<wg, dones>>

\* On return, by either path: the deferred wg.Done() runs.
WgDone(h) ==
    /\ gpc[h] = "deferred"
    /\ wg' = wg - 1
    /\ dones' = [dones EXCEPT ![h] = @ + 1]
    /\ gpc' = [gpc EXCEPT ![h] = "returned"]

Deferred(h) ==
    /\ WgDone(h)
    /\ UNCHANGED <<inventory, conf, playbook, pc, start, end, i, connections,
                   client, pos, ran, dials, launches, setErrors, closes, slices>>
    /\ UNCHANGED <<execVars, act, mainVars>>

----------------------------------------------------------------------------

Next ==
    \/ SliceBegin
    \/ RunReturn
    \/ Dial
    \/ NoConnections
    \/ WgAdd
    \/ Launch
    \/ LaunchDone
    \/ WgWait
    \/ Close
    \/ SliceDone
    \/ \E h \in Hosts : ActionStart(h)
    \/ \E h \in Hosts : ActionReturn(h)
    \/ \E h \in Hosts : LoopsDone(h)
    \/ \E h \in Hosts : Deferred(h)

Spec == Init /\ [][Next]_vars

----------------------------------------------------------------------------
\* The inventory on its own: any sequence of Server.SetError calls, with nil
\* or with an error, on the servers of an inventory.

SetErrorCall(h, err) ==
    /\ setErrors[h] < MaxSetErrors
    /\ inventory' = SetError(inventory, h, err)
    /\ setErrors' = [setErrors EXCEPT ![h] = @ + 1]
    /\ UNCHANGED <<conf, playbook, schedVars, client, gpc, pos, ran, dials,
                   launches, dones, closes, slices, mainVars, execVars, act>>

InitInv ==
    /\ \E n \in 0..MaxHosts : inventory = [h \in 1..n |-> Server(h)]
    /\ conf = [MaxConcurrentConnections |-> 1]
    /\ playbook = [Tasks |-> <<>>]
    /\ pc = "inventory"
    /\ start = 0
    /\ end = 0
    /\ i = 1
    /\ connections = <<>>
    /\ wg = 0
    /\ client = [h \in Hosts |-> "none"]
    /\ gpc = [h \in Hosts |-> "idle"]
    /\ pos = [h \in Hosts |-> <<1, 1>>]
    /\ ran = [h \in Hosts |-> <<>>]
    /\ dials = [h \in Hosts |-> 0]
    /\ launches = [h \in Hosts |-> 0]
    /\ setErrors = [h \in Hosts |-> 0]
    /\ dones = [h \in Hosts |-> 0]
    /\ closes = [h \in Hosts |-> 0]
    /\ slices = <<>>
    /\ ctx = [done |-> FALSE, inRun |-> FALSE]
    /\ actionCtx = [h \in Hosts |-> <<>>]
    /\ OthersIdle
    /\ act = NoAction
    /\ ExecStart(FALSE)

NextInv ==
    \E h \in Hosts : \E err \in {Nil, ConnectError(h), ActionError(1)} :
        SetErrorCall(h, err)

SpecInv == InitInv /\ [][NextInv]_vars

----------------------------------------------------------------------------
\* The process: main, which calls Run and reports, the goroutine of
\* InitGracefulStop, and the deadlines of the actions' contexts.

\* Run has been called and has not returned.
InRun == pc \in {"for", "dial", "launch", "wait", "close"}

\* InitGracefulStop's goroutine: a SIGINT or SIGTERM arrives and cancel()
\* is called on main's ctx.
Signal ==
    /\ pc \notin {"exit", "fatal"}
    /\ ~ctx.done
    /\ ctx' = [done |-> TRUE, inRun |-> InRun]
    /\ UNCHANGED <<inventory, conf, playbook, schedVars, hostVars, slices,
                   actionCtx, otherVars, execVars, act>>

\* The deadline of the context of the action running on host h passes.
Deadline(h) ==
    /\ gpc[h] = "run"
    /\ ~actionCtx[h][Len(actionCtx[h])].expired
    /\ actionCtx' = [actionCtx EXCEPT ![h][Len(actionCtx[h])].expired = TRUE]
    /\ UNCHANGED <<inventory, conf, playbook, schedVars, hostVars, slices,
                   ctx, otherVars, execVars, act>>

\* main, after Run: inventory.GetAllCompletedServers() and
\* inventory.GetAllFailedServers() are computed and logged.
MainReport ==
    /\ pc = "done"
    /\ pc' = "select"
    /\ UNCHANGED <<inventory, conf, playbook, start, end, i, connections, wg,
                   hostVars, slices, mainVars, execVars, act>>

\* main: `select { case <-ctx.Done(): log.Fatalf(...); default: }`
ExitOf(done) == IF done THEN "fatal" ELSE "exit"

MainSelect ==
    /\ pc = "select"
    /\ pc' = ExitOf(ctx.done)
    /\ UNCHANGED <<inventory, conf, playbook, start, end, i, connections, wg,
                   hostVars, slices, mainVars, execVars, act>>

NextMain ==
    \/ Next
    \/ Signal
    \/ \E h \in Hosts : Deadline(h)
    \/ MainReport
    \/ MainSelect

\* main is about to call Run, on a small inventory.
InitMain ==
    /\ Init
    /\ Len(inventory) <= MainMaxHosts
    /\ conf.MaxConcurrentConnections <= MainMaxConns

SpecMain == InitMain /\ [][NextMain]_vars

----------------------------------------------------------------------------
\* Run under fair scheduling: the goroutine of main and the goroutine of
\* each host keep taking steps while they can (every dial returns, every
\* Action's Run returns, the Go scheduler starves no runnable goroutine).

\* A step of main's goroutine inside Run.
SchedulerStep ==
    \/ SliceBegin
    \/ RunReturn
    \/ Dial
    \/ NoConnections
    \/ WgAdd
    \/ Launch
    \/ LaunchDone
    \/ WgWait
    \/ Close
    \/ SliceDone

\* A step of the goroutine launched for host h.
HostStep(h) ==
    /\ h \in Hosts
    /\ \/ ActionStart(h)
       \/ ActionReturn(h)
       \/ LoopsDone(h)
       \/ Deferred(h)

RunFair ==
    /\ WF_vars(SchedulerStep)
    /\ \A h \in 1..MainMaxHosts : WF_vars(HostStep(h))

SpecFair == InitMain /\ [][Next]_vars /\ RunFair

----------------------------------------------------------------------------
\* The start of main: config.NewConfing, inventory.NewInventory,
\* playbook.NewPlaybook, then Run.

\* Go's uint and int have the same width, 64 bits on the platforms the
\* program is built for; the model keeps the two's-complement arithmetic on
\* a width of UintBits bits.
UintBits == 3
MaxUint == 2^UintBits - 1
MaxInt == 2^(UintBits - 1) - 1

\* int(u) of a uint u: the same bits read as a signed integer.
ToInt(u) == IF u > MaxInt THEN u - 2^UintBits ELSE u

\* main has no Config yet.
NoConfig == [none |-> TRUE]

\* Mutant of FlagAccepted: the value of the flag is not looked at.
FlagAcceptedAlways(u) == TRUE

\* `if *maxConcurrentConnections == 0 { log.Fatal(...) }`
FlagAccepted(u) == u # 0

\* config.NewConfing, after kingpin.Parse(): the process exits on a zero
\* flag, else the Config is returned with the flag converted to int.
NewConfing ==
    /\ pc = "NewConfing"
    /\ IF FlagAccepted(maxConcurrentConnections)
       THEN /\ conf' = [MaxConcurrentConnections |-> ToInt(maxConcurrentConnections)]
            /\ pc' = "NewInventory"
       ELSE /\ pc' = "fatal config"
            /\ UNCHANGED conf
    /\ UNCHANGED <<inventory, playbook, start, end, i, connections, wg,
                   hostVars, slices, mainVars, execVars, act>>

\* inventory.NewInventory(conf.Inventory): the inventory is loaded, or the
\* process exits on the error.
NewInventory ==
    /\ pc = "NewInventory"
    /\ \/ /\ pc' = "fatal inventory"
          /\ UNCHANGED <<inventory, hostVars, actionCtx>>
       \/ /\ pc' = "NewPlaybook"
          /\ \E n \in 0..MainMaxHosts :
               /\ inventory' = [h \in 1..n |-> Server(h)]
               /\ client' = [h \in 1..n |-> "none"]
               /\ gpc' = [h \in 1..n |-> "idle"]
               /\ pos' = [h \in 1..n |-> <<1, 1>>]
               /\ ran' = [h \in 1..n |-> <<>>]
               /\ dials' = [h \in 1..n |-> 0]
               /\ launches' = [h \in 1..n |-> 0]
               /\ setErrors' = [h \in 1..n |-> 0]
               /\ dones' = [h \in 1..n |-> 0]
               /\ closes' = [h \in 1..n |-> 0]
               /\ actionCtx' = [h \in 1..n |-> <<>>]
    /\ UNCHANGED <<conf, playbook, start, end, i, connections, wg, slices,
                   ctx, otherVars, execVars, act>>

\* playbook.NewPlaybook(conf.Playbook): the playbook is loaded, or the
\* process exits on the error.
NewPlaybook ==
    /\ pc = "NewPlaybook"
    /\ \/ pc' = "fatal playbook" /\ UNCHANGED playbook
       \/ pc' = "for" /\ playbook' \in Playbooks
    /\ UNCHANGED <<inventory, conf, start, end, i, connections, wg,
                   hostVars, slices, mainVars, execVars, act>>

\* Run: inventory[start:end] with bounds out of range; the goroutine panics.
SlicePanic ==
    /\ pc = "for"
    /\ start < Len(inventory)
    /\ ~SliceInRange(start,
                     SliceEnd(start, conf.MaxConcurrentConnections, Len(inventory)),
                     Len(inventory))
    /\ pc' = "panic"
    /\ UNCHANGED <<inventory, conf, playbook, start, end, i, connections, wg,
                   hostVars, slices, mainVars, execVars, act>>

\* main is started with any value the flag's parser can produce.
InitBoot ==
    /\ maxConcurrentConnections \in 0..MaxUint
    /\ conf = NoConfig
    /\ inventory = <<>>
    /\ playbook = [Tasks |-> <<>>]
    /\ pc = "NewConfing"
    /\ start = 0
    /\ end = 0
    /\ i = 1
    /\ connections = <<>>
    /\ wg = 0
    /\ client = <<>>
    /\ gpc = <<>>
    /\ pos = <<>>
    /\ ran = <<>>
    /\ dials = <<>>
    /\ launches = <<>>
    /\ setErrors = <<>>
    /\ dones = <<>>
    /\ closes = <<>>
    /\ slices = <<>>
    /\ ctx = [done |-> FALSE, inRun |-> FALSE]
    /\ actionCtx = <<>>
    /\ val = NoValidate
    /\ dec = NoDecode
    /\ act = NoAction
    /\ ExecStart(FALSE)

NextBoot ==
    \/ NewConfing
    \/ NewInventory
    \/ NewPlaybook
    \/ SlicePanic
    \/ Next

SpecBoot == InitBoot /\ [][NextBoot]_vars

----------------------------------------------------------------------------
\* The scheduler, Exec and main at rest, with the scheduler's position given:
\* the initial condition of the computations looked at on their own.
AtRest(position) ==
    /\ inventory = <<>>
    /\ conf = [MaxConcurrentConnections |-> 1]
    /\ maxConcurrentConnections = 1
    /\ playbook = [Tasks |-> <<>>]
    /\ pc = position
    /\ start = 0
    /\ end = 0
    /\ i = 1
    /\ connections = <<>>
    /\ wg = 0
    /\ client = <<>>
    /\ gpc = <<>>
    /\ pos = <<>>
    /\ ran = <<>>
    /\ dials = <<>>
    /\ launches = <<>>
    /\ setErrors = <<>>
    /\ dones = <<>>
    /\ closes = <<>>
    /\ slices = <<>>
    /\ ctx = [done |-> FALSE, inRun |-> FALSE]
    /\ actionCtx = <<>>
    /\ act = NoAction
    /\ ExecStart(FALSE)

----------------------------------------------------------------------------
\* ValidateAction.Run.  The action's Retries is a uint; its Scheme decides
\* whether http.NewRequest can build the request (the scheme ":" cannot be
\* parsed).  val.attempts holds the result of every call of a.validate, in
\* order; val.err is Run's local err.

\* The errors a.validate returns, by the message they start with; "nil" is
\* success.
ValidateErrors ==
    {"failed to execute request", "expected status",
     "failed to read response body", "response does not contain expected content"}

\* The error of http.NewRequest on the URL made from the scheme: nil when the
\* URL parses.
NewRequestErr(scheme) == IF scheme = ":" THEN "missing protocol scheme" ELSE "nil"

\* retries := 1; if a.Retries > 0 { retries = int(a.Retries) }
LoopBound(Retries) == IF Retries > 0 THEN ToInt(Retries) ELSE 1

\* req, err := http.NewRequest(...); on an error Run returns it.
ValNewRequest ==
    /\ val.pc = "NewRequest"
    /\ LET err == NewRequestErr(val.Scheme) IN
         IF err # "nil"
         THEN val' = [val EXCEPT !.pc = "returned",
                                 !.ret = [kind |-> "failed to create http request",
                                          cause |-> err]]
         ELSE val' = [val EXCEPT !.pc = "for", !.err = err]
    /\ UNCHANGED exceptVal

\* One iteration of `for i := 0; i < retries; i++`: a call of a.validate;
\* on nil Run returns nil, else the error is kept in err.
ValAttempt ==
    /\ val.pc = "for"
    /\ val.i < LoopBound(val.Retries)
    /\ \E err \in ValidateErrors \cup {"nil"} :
         val' = [val EXCEPT !.attempts = Append(@, err),
                            !.err = err,
                            !.i = IF err = "nil" THEN @ ELSE @ + 1,
                            !.pc = IF err = "nil" THEN "returned" ELSE "for",
                            !.ret = IF err = "nil" THEN [kind |-> "nil"] ELSE @]
    /\ UNCHANGED exceptVal

\* The loop is over: fmt.Errorf("failed to validate %q after %d retries: %s",
\* u.String(), a.Retries, err)
ValExhausted ==
    /\ val.pc = "for"
    /\ ~(val.i < LoopBound(val.Retries))
    /\ val' = [val EXCEPT !.pc = "returned",
                          !.ret = [kind |-> "failed to validate",
                                   retries |-> val.Retries,
                                   cause |-> val.err]]
    /\ UNCHANGED exceptVal

\* A call of Run on an action with any Retries and a good or a bad scheme.
InitValidate ==
    /\ AtRest("validate")
    /\ dec = NoDecode
    /\ \E Retries \in 0..MaxUint : \E Scheme \in {"http", ":"} :
         val = [pc |-> "NewRequest", Retries |-> Retries, Scheme |-> Scheme,
                i |-> 0, err |-> "nil", attempts |-> <<>>,
                ret |-> [kind |-> "none"]]

NextValidate ==
    \/ ValNewRequest
    \/ ValAttempt
    \/ ValExhausted

SpecValidate == InitValidate /\ [][NextValidate]_vars

----------------------------------------------------------------------------
\* actions.UnmarshalAction.  A raw action is what yaml gave for the value of
\* an action's key: a string, a map, null, or something else (a list).  Of a
\* map the model keeps its keys, lower-cased, since the decoder matches keys
\* to fields without regard to case; the Type given inside the value of the
\* key "actionbase", when there is one; and whether some value has a type
\* that its field cannot take.

\* The action types initAction knows, and the types tried.
Kinds == {"file", "apt", "service", "shell", "validate"}
ActionTypes == Kinds \cup {"foobar"}

\* The fields the decoder sees in the struct of each kind: the embedded
\* ActionBase, which carries no squash tag and so is a field of its own
\* name, and the kind's own fields, by tag or by name.
Fields(kind) ==
    {"actionbase"} \cup
        CASE kind = "file"     -> {"src", "dest", "owner", "group", "mode"}
          [] kind = "apt"      -> {"state", "pkg"}
          [] kind = "service"  -> {"name", "state"}
          [] kind = "shell"    -> {"data"}
          [] kind = "validate" -> {"scheme", "port", "urlpath", "retries",
                                   "timeout", "statuscode", "bodycontent"}

\* The keys of the raw maps tried.
MapKeys == {"state", "pkg", "data", "foo", "actionbase"}

RawString == [form |-> "string", keys |-> {}, base |-> "", bad |-> FALSE]
RawNull == [form |-> "null", keys |-> {}, base |-> "", bad |-> FALSE]
RawList == [form |-> "list", keys |-> {}, base |-> "", bad |-> FALSE]
RawMap(keys, base, bad) == [form |-> "map", keys |-> keys, base |-> base, bad |-> bad]

RawActions ==
    {RawString, RawNull, RawList} \cup
    {RawMap(K, IF "actionbase" \in K THEN "shell" ELSE "", bad) :
        K \in SUBSET MapKeys, bad \in BOOLEAN}

\* No action: the nil Action.
NilAction == [kind |-> "nil", Type |-> "", set |-> {}]

\* initAction: the zero value of the kind's struct, with setType(actionType);
\* an error for any other type.
initAction(actionType) ==
    IF actionType \in Kinds
    THEN [err |-> "nil",
          action |-> [kind |-> actionType, Type |-> actionType, set |-> {}]]
    ELSE [err |-> "unrecognised action", action |-> NilAction]

\* `if str, ok := rawAction.(string); ok { rawAction = map[string]string{"data": str} }`
DataHack(rawAction) ==
    IF rawAction.form = "string" THEN RawMap({"data"}, "", FALSE) ELSE rawAction

\* ErrorUnused: the keys of the input that no field of the struct has taken.
UnusedKeys(kind, keys) == keys \ Fields(kind)

\* decoder.Decode(rawAction) into the action that Result points to.  Null
\* sets nothing; an input that is not a map is an error; of a map every key
\* that names a field is decoded into it, the key "actionbase" into the
\* embedded ActionBase and hence into Type; a value of the wrong type and an
\* unused key are errors.
Decode(action, rawAction) ==
    CASE rawAction.form = "null" -> [err |-> "nil", action |-> action]
      [] rawAction.form = "map" ->
           IF rawAction.bad
           THEN [err |-> "unconvertible type", action |-> action]
           ELSE IF UnusedKeys(action.kind, rawAction.keys) # {}
           THEN [err |-> "has invalid keys", action |-> action]
           ELSE [err |-> "nil",
                 action |-> [action EXCEPT
                     !.set = rawAction.keys,
                     !.Type = IF "actionbase" \in rawAction.keys
                              THEN rawAction.base ELSE @]]
      [] OTHER -> [err |-> "expected a map", action |-> action]

\* UnmarshalAction(actionType, rawAction): the action and a nil error, or
\* nil and the error.
UnmarshalAction(actionType, rawAction) ==
    LET init == initAction(actionType) IN
    IF init.err # "nil"
    THEN [err |-> "failed to initialise action", action |-> NilAction]
    ELSE LET d == Decode(init.action, DataHack(rawAction)) IN
         IF d.err # "nil"
         THEN [err |-> "failed to decode action", action |-> NilAction]
         ELSE [err |-> "nil", action |-> d.action]

\* action.GetType()
GetType(action) == action.Type

\* One call of UnmarshalAction.
UnmarshalCall ==
    /\ dec.pc = "UnmarshalAction"
    /\ dec' = [dec EXCEPT !.pc = "returned",
                          !.result = UnmarshalAction(dec.actionType, dec.rawAction)]
    /\ UNCHANGED exceptDec

\* UnmarshalAction is about to be called on any type and any raw action.
InitUnmarshal ==
    /\ AtRest("decode")
    /\ val = NoValidate
    /\ \E actionType \in ActionTypes : \E rawAction \in RawActions :
         dec = [pc |-> "UnmarshalAction", actionType |-> actionType,
                rawAction |-> rawAction,
                result |-> [err |-> "none", action |-> NilAction]]

NextUnmarshal == UnmarshalCall

SpecUnmarshal == InitUnmarshal /\ [][NextUnmarshal]_vars

----------------------------------------------------------------------------
\* Task.UnmarshalYAML.  A task of the playbook file is a yaml mapping: the
\* model keeps what it gives for "name" and, in the order of the file, its
\* other entries, each a key and a raw action.  unmarshal(&rawTask) makes of
\* it a Go map, which `range` visits in an order that the language leaves
\* unspecified and that differs from one loop to the next.  The same task is
\* decoded twice, as by two loads of the playbook.

\* Largest number of entries of a task besides its name.
MaxActions == 2

\* What the file may give for "name": nothing, a string that is empty or
\* not, or a value that is no string.
Names == {"absent", "empty string", "string", "number"}

\* The keys and the raw actions of the entries tried.
TaskKinds == {"apt", "service", "shell", "foobar"}
TaskRaws == {RawString, RawMap({"state"}, "", FALSE), RawMap({"foo"}, "", FALSE)}
Entries == [key : TaskKinds, raw : TaskRaws]

\* The keys of a mapping are distinct.
DistinctKeys(entries) ==
    \A j, k \in DOMAIN entries : j # k => entries[j].key # entries[k].key

RawTasks ==
    {[name |-> name, entries |-> entries] :
        name \in Names,
        entries \in {e \in UNION {[1..n -> Entries] : n \in 0..MaxActions} :
                        DistinctKeys(e)}}

\* The frame of UnmarshalYAML at its start, in the run-th decoding of the task.
DecStart(rawTask, run, first) ==
    [pc |-> "unmarshal", rawTask |-> rawTask, run |-> run, first |-> first,
     remaining |-> {}, visited |-> <<>>,
     t |-> [Name |-> "", Actions |-> <<>>], err |-> "none"]

\* `rawName, ok := rawTask["name"]` and `taskName, ok := rawName.(string)`:
\* the error of the name, "nil" when the name is a non-empty string.
NameErr(name) ==
    IF name = "absent" THEN "missing 'name' field"
    ELSE IF name # "string" THEN "'name' field needs to be a non-empty string"
    ELSE "nil"

\* The task is unmarshalled into rawTask and its name is checked, set and
\* deleted from the map; the range loop is about to start.
DecName ==
    /\ dec.pc = "unmarshal"
    /\ LET err == NameErr(dec.rawTask.name) IN
         IF err # "nil"
         THEN dec' = [dec EXCEPT !.pc = "returned", !.err = err]
         ELSE dec' = [dec EXCEPT !.pc = "range",
                                 !.t.Name = dec.rawTask.name,
                                 !.remaining = DOMAIN dec.rawTask.entries]
    /\ UNCHANGED exceptDec

\* One iteration of `for actionType, action := range rawTask`, on any of
\* the entries not visited yet: UnmarshalAction; on an error UnmarshalYAML
\* returns it, else the action is appended to t.Actions.
DecRange ==
    /\ dec.pc = "range"
    /\ \E k \in dec.remaining :
         LET entry == dec.rawTask.entries[k]
             r == UnmarshalAction(entry.key, entry.raw) IN
         IF r.err # "nil"
         THEN dec' = [dec EXCEPT !.pc = "returned",
                                 !.err = "failed to unmarshal action",
                                 !.visited = Append(@, entry.key)]
         ELSE dec' = [dec EXCEPT !.remaining = @ \ {k},
                                 !.visited = Append(@, entry.key),
                                 !.t.Actions = Append(@, r.action)]
    /\ UNCHANGED exceptDec

\* Mutant of NoActionsErr: a task without actions is accepted.
NoActionsErrNever(actions) == "nil"

\* `if len(t.Actions) == 0 { return fmt.Errorf("task %q has no actions", ...) }`
NoActionsErr(actions) == IF Len(actions) = 0 THEN "has no actions" ELSE "nil"

\* The range loop is over: UnmarshalYAML returns.
DecRangeDone ==
    /\ dec.pc = "range"
    /\ dec.remaining = {}
    /\ dec' = [dec EXCEPT !.pc = "returned", !.err = NoActionsErr(dec.t.Actions)]
    /\ UNCHANGED exceptDec

\* The task is decoded a second time; the first result is kept for comparison.
DecAgain ==
    /\ dec.pc = "returned"
    /\ dec.run = 1
    /\ dec' = DecStart(dec.rawTask, 2, [err |-> dec.err, t |-> dec.t])
    /\ UNCHANGED exceptDec

InitDecode ==
    /\ AtRest("decode")
    /\ val = NoValidate
    /\ \E rawTask \in RawTasks :
         dec = DecStart(rawTask, 1, [err |-> "none", t |-> [Name |-> "", Actions |-> <<>>]])

NextDecode ==
    \/ DecName
    \/ DecRange
    \/ DecRangeDone
    \/ DecAgain

SpecDecode == InitDecode /\ [][NextDecode]_vars

----------------------------------------------------------------------------
\* Vocabulary of the properties

\* The hosts whose connection NewConnection has opened and on which Close
\* has not been called yet.
OpenConnections == {h \in Hosts : client[h] = "open"}

DialFailedOn(h) == client[h] = "dial error"
DialSucceededOn(h) == client[h] \in {"open", "closed", "closed with error"}

\* ceil(n / m), for m >= 1
CeilDiv(n, m) == (n + m - 1) \div m

\* The actions of a playbook in declaration order: task by task, and inside a
\* task in the order of its list.
RECURSIVE ActionsFrom(_, _)
ActionsFrom(p, t) ==
    IF t > Len(p.Tasks) THEN <<>>
    ELSE p.Tasks[t].Actions \o ActionsFrom(p, t + 1)

DeclaredActions(p) == ActionsFrom(p, 1)

\* The actions of a record of calls, in call order.
Called(calls) == [k \in DOMAIN calls |-> calls[k].action]

IsPrefix(s, t) == Len(s) <= Len(t) /\ \A k \in DOMAIN s : s[k] = t[k]

\* Every call of the record has returned nil.
AllSucceeded(calls) == \A k \in DOMAIN calls : calls[k].result = Nil

\* Some call of the record has returned an error.
SomeFailed(calls) == \E k \in DOMAIN calls : calls[k].result \notin {Nil, Running}

----------------------------------------------------------------------------
\* C1: at every point of Run, the number of connections opened and not yet
\* closed is at most MaxConcurrentConnections.
C1_OpenConnectionsBounded ==
    Cardinality(OpenConnections) <= conf.MaxConcurrentConnections

\* C1 witness: a full slice of at least two connections is open and running,
\* in a run over more hosts than the limit.
C1_Witness ==
    /\ conf.MaxConcurrentConnections >= 2
    /\ Len(inventory) > conf.MaxConcurrentConnections
    /\ Cardinality(OpenConnections) = conf.MaxConcurrentConnections
    /\ pc = "wait"

\* C2: slices are strictly sequential.  While Run is in the dial loop of a
\* slice, every goroutine launched for an earlier slice has returned and
\* Close has been called on every connection opened in an earlier slice.
C2_SlicesSequential ==
    pc = "dial" =>
        \A h \in Hosts :
            h <= start =>
                /\ launches[h] > 0 => gpc[h] = "returned"
                /\ gpc[h] \in {"idle", "returned"}
                /\ DialSucceededOn(h) => closes[h] >= 1 /\ client[h] # "open"

\* C2 witness: Run is about to dial a host of a later slice after a slice in
\* which one host's action failed and a Close returned an error.
C2_Witness ==
    /\ pc = "dial"
    /\ i <= end
    /\ \E h \in Hosts : h <= start /\ SomeFailed(ran[h])
    /\ \E h \in Hosts : h <= start /\ client[h] = "closed with error"

\* C3: Run makes exactly ceil(N / M) slice iterations; the slices are
\* contiguous, disjoint, in inventory order, of at most M hosts each, and
\* cover the inventory; every host is dialed exactly once.
C3_SlicesPartitionInventory ==
    /\ \A h \in Hosts : dials[h] <= 1
    /\ pc = "done" =>
        /\ Len(slices) = CeilDiv(Len(inventory), conf.MaxConcurrentConnections)
        /\ \A k \in DOMAIN slices :
             /\ slices[k][1] < slices[k][2]
             /\ slices[k][2] - slices[k][1] <= conf.MaxConcurrentConnections
             /\ slices[k][1] = IF k = 1 THEN 0 ELSE slices[k - 1][2]
        /\ slices # <<>> => slices[Len(slices)][2] = Len(inventory)
        /\ (slices = <<>>) = (Len(inventory) = 0)
        /\ \A h \in Hosts : dials[h] = 1

\* C3 witness: Run has returned after two slices, the last one shorter than M.
C3_Witness ==
    /\ pc = "done"
    /\ Len(slices) = 2
    /\ slices[2][2] - slices[2][1] < conf.MaxConcurrentConnections

\* C4: a failed dial is recorded on the host and does not end the dial loop:
\* once the dial loop of a slice is over every host of the slice has been
\* dialed; a host whose dial failed has a non-nil error and is never
\* launched; every host whose dial succeeded is launched once the launch
\* loop is over; and when Run returns every host has been dialed, also past
\* a slice whose dials all failed.
C4_DialFailureSkipsHostOnly ==
    /\ \A h \in Hosts :
         DialFailedOn(h) => GetError(inventory[h]) # Nil /\ launches[h] = 0
    /\ pc \in {"launch", "wait", "close"} =>
         \A h \in Hosts : (start < h /\ h <= end) => dials[h] = 1
    /\ pc \in {"wait", "close"} =>
         \A h \in Hosts :
            (start < h /\ h <= end /\ DialSucceededOn(h)) => launches[h] = 1
    /\ pc = "done" =>
         \A h \in Hosts :
            /\ dials[h] = 1
            /\ DialSucceededOn(h) => launches[h] = 1 /\ gpc[h] = "returned"

\* C4 witness: Run has returned; in the first slice the first dial failed and
\* the second host still ran the playbook; the last slice had only failed
\* dials.
C4_Witness ==
    /\ pc = "done"
    /\ Len(inventory) = 3
    /\ conf.MaxConcurrentConnections = 2
    /\ DialFailedOn(1)
    /\ DialSucceededOn(2) /\ Len(ran[2]) = 3
    /\ DialFailedOn(3)

\* C5: once an Action's Run has returned an error on a host, that call is
\* the host's last call of an Action, and the error recorded on the host is
\* the error that call returned.
C5_FirstFailureEndsHostRun ==
    \A h \in Hosts :
        \A k \in DOMAIN ran[h] :
            ran[h][k].result \notin {Nil, Running} =>
                /\ k = Len(ran[h])
                /\ GetError(inventory[h]) = ran[h][k].result

\* C5 witness: on a playbook of three actions in two tasks, a host's second
\* action failed and the host's goroutine has returned.
C5_Witness ==
    \E h \in Hosts :
        /\ Len(DeclaredActions(playbook)) = 3
        /\ Len(ran[h]) = 2
        /\ ran[h][1].result = Nil
        /\ ran[h][2].result = ActionError(ran[h][2].action)
        /\ gpc[h] = "returned"
        /\ pc = "done"

\* C6: a failing Action on one host does not touch the others.  When Run has
\* returned, every host has been dialed, and every host that was connected
\* and none of whose actions failed has run every action of every task and
\* has no recorded error.
C6_FailureIsLocalToHost ==
    pc = "done" =>
        \A h \in Hosts :
            /\ dials[h] = 1
            /\ (DialSucceededOn(h) /\ ~SomeFailed(ran[h])) =>
                  /\ Called(ran[h]) = DeclaredActions(playbook)
                  /\ AllSucceeded(ran[h])
                  /\ GetError(inventory[h]) = Nil

\* C6 witness: in one slice host 1 failed its first action while host 2 ran
\* all three actions; host 3, of the next slice, ran all three as well.
C6_Witness ==
    /\ pc = "done"
    /\ Len(inventory) = 3
    /\ conf.MaxConcurrentConnections = 2
    /\ Len(ran[1]) = 1 /\ SomeFailed(ran[1])
    /\ Len(ran[2]) = 3 /\ AllSucceeded(ran[2])
    /\ Len(ran[3]) = 3 /\ AllSucceeded(ran[3])

\* C7: during one Run each host's outcome field is written at most once.
C7_OutcomeWrittenAtMostOnce ==
    \A h \in Hosts : setErrors[h] <= 1

\* C7 witness: Run has returned with one host written by the dial-failure
\* path and another by a failing action.
C7_Witness ==
    /\ pc = "done"
    /\ \E h \in Hosts : DialFailedOn(h) /\ setErrors[h] = 1
    /\ \E h \in Hosts : SomeFailed(ran[h]) /\ setErrors[h] = 1

\* C8: when every Action returns nil, Playbook.Run runs each Action of each
\* Task exactly once, records no error and signals the wait group exactly
\* once.
C8_AllSucceedRunsEverythingOnce ==
    \A h \in Hosts :
        (gpc[h] = "returned" /\ AllSucceeded(ran[h])) =>
            /\ Called(ran[h]) = DeclaredActions(playbook)
            /\ GetError(inventory[h]) = Nil
            /\ setErrors[h] = 0
            /\ dones[h] = 1

\* C8 witness: a goroutine has returned after three successful actions.
C8_Witness ==
    \E h \in Hosts :
        /\ gpc[h] = "returned"
        /\ Len(ran[h]) = 3
        /\ AllSucceeded(ran[h])

\* C9: on one host the Actions are called in Task order and, inside a Task,
\* in list order; an Action is called only after the previous one returned,
\* so at most one is in progress and it is the last one called.
C9_ActionsInDeclarationOrder ==
    \A h \in Hosts :
        /\ IsPrefix(Called(ran[h]), DeclaredActions(playbook))
        /\ \A k \in DOMAIN ran[h] : ran[h][k].result = Running => k = Len(ran[h])
        /\ \A k \in DOMAIN ran[h] : k < Len(ran[h]) => ran[h][k].result = Nil

\* C9 witness: on the playbook <<1, 2>>, <<3>> a host is running the action
\* of the second task after both actions of the first.
C9_Witness ==
    \E h \in Hosts :
        /\ Len(playbook.Tasks) = 2
        /\ Len(playbook.Tasks[1].Actions) = 2
        /\ Len(ran[h]) = 3
        /\ ran[h][3].result = Running

\* C10: no Action is ever run on a host whose dial failed, and when Run has
\* returned the host is in the failed list.
C10_DialFailedHostNeverRuns ==
    \A h \in Hosts :
        DialFailedOn(h) =>
            /\ ran[h] = <<>>
            /\ gpc[h] = "idle"
            /\ pc = "done" =>
                 \E k \in DOMAIN GetAllFailedServers(inventory) :
                    GetAllFailedServers(inventory)[k] = GetAddress(inventory[h])

\* C10 witness: Run has returned; one host's dial failed while another host
\* of its slice ran actions.
C10_Witness ==
    /\ pc = "done"
    /\ conf.MaxConcurrentConnections >= 2
    /\ \E h, g \in Hosts :
         /\ DialFailedOn(h)
         /\ g <= conf.MaxConcurrentConnections
         /\ h <= conf.MaxConcurrentConnections
         /\ Len(ran[g]) > 0

----------------------------------------------------------------------------
\* connection.Exec(ctx, withTerminal, fn): newSession, the body fn, the waits,
\* the returned error and the deferred Session.close, together with the
\* goroutines that run beside it: the watcher started by newSession, the
\* side task of the body (copyFile in an errgroup), the remote command, and
\* the cancellation of ctx.
\*
\* An error of Exec is modelled by the set of the failures its message
\* carries: "session", "prep", "cmd", "async", "ctx"; the empty set is nil.

\* One entry of stdinOps.  op is "write" or "CloseStdin"; data is what was
\* written, or what stdin.Close() did; done tells that the write succeeded,
\* or that the call performed stdin.Close(); err is the error returned to
\* the caller; late tells that Exec had already returned.
StdinOp(who, op, data, done, err) ==
    [who |-> who, op |-> op, data |-> data, done |-> done, err |-> err,
     late |-> ex.pc = "returned"]

\* Mutant of OnceDo: the function is run on every call.
OnceDoAlways(done) == TRUE

\* sync.Once.Do runs its function unless an earlier call has run it.
OnceDo(done) == ~done

\* Mutant of CloseStdinErr: the error of the close is returned by every call.
CloseStdinErrSticky(performed, closeErr) == closeErr

\* Session.CloseStdin's result: the error of stdin.Close() when this call
\* performed it, nil otherwise (err is a local that Do alone assigns).
CloseStdinErr(performed, closeErr) == performed /\ closeErr

\* Session.CloseStdin called by `who`; closeErr is what stdin.Close() returns
\* when it is called.
CloseStdin(who, closeErr) ==
    LET performed == OnceDo(sess.onceDone) IN
    /\ sess' = [sess EXCEPT !.onceDone = TRUE,
                            !.stdin = IF performed THEN "closed" ELSE @]
    /\ stdinOps' = Append(stdinOps,
                          StdinOp(who, "CloseStdin",
                                  IF ~performed THEN "no close"
                                  ELSE IF closeErr THEN "close failed"
                                  ELSE "closed",
                                  performed,
                                  CloseStdinErr(performed, closeErr)))

\* A write to stdin by `who`.  A write to a closed pipe fails; a write to an
\* open pipe succeeds or fails.
WriteStdin(who, data, ok) ==
    /\ sess.stdin # "open" => ~ok
    /\ stdinOps' = Append(stdinOps, StdinOp(who, "write", data, ok, ~ok))

\* newSession: client.NewSession().  On failure newSession closes the client
\* and Exec returns the error.
NewSession ==
    /\ ex.pc = "NewSession"
    /\ \/ /\ sess' = [sess EXCEPT !.sshSess = "open"]
          /\ ex' = [ex EXCEPT !.pc = "StdinPipe"]
          /\ UNCHANGED counts
       \/ /\ counts' = [counts EXCEPT !.clientClose = @ + 1]
          /\ ex' = [ex EXCEPT !.pc = "returned", !.ret = {"session"}]
          /\ UNCHANGED sess
    /\ UNCHANGED <<withTerminal, ctxDone, wpc, cp, cmd, stdinOps, runVars, act>>

\* newSession: sshSess.StdinPipe().  On failure Exec returns the error.
StdinPipe ==
    /\ ex.pc = "StdinPipe"
    /\ \/ /\ sess' = [sess EXCEPT !.stdin = "open"]
          /\ ex' = [ex EXCEPT !.pc = IF withTerminal THEN "RequestPty"
                                     ELSE "go watcher"]
       \/ /\ ex' = [ex EXCEPT !.pc = "returned", !.ret = {"session"}]
          /\ UNCHANGED sess
    /\ UNCHANGED <<withTerminal, ctxDone, wpc, cp, cmd, stdinOps, counts,
                   runVars, act>>

\* newSession: sshSess.RequestPty(...), when withTerminal.
RequestPty ==
    /\ ex.pc = "RequestPty"
    /\ \/ ex' = [ex EXCEPT !.pc = "go watcher"]
       \/ ex' = [ex EXCEPT !.pc = "returned", !.ret = {"session"}]
    /\ UNCHANGED <<withTerminal, ctxDone, sess, wpc, cp, cmd, stdinOps, counts,
                   runVars, act>>

\* newSession: the quit channel and the Session are made, the watcher
\* goroutine is started and the Session is returned; Exec defers sess.close.
StartWatcher ==
    /\ ex.pc = "go watcher"
    /\ sess' = [sess EXCEPT !.quitChan = "open", !.created = TRUE]
    /\ wpc' = "select"
    /\ ex' = [ex EXCEPT !.pc = "fn"]
    /\ UNCHANGED <<withTerminal, ctxDone, cp, cmd, stdinOps, counts, runVars, act>>

\* Mutant of PrepErrorNext: a preparation error does not end Exec.
PrepErrorNextWaits == "wait"

\* `if err != nil { return ... }` after fn: Exec returns, running the
\* deferred close.
PrepErrorNext == "close quit"

\* The file actions whose body may be the fn of this Exec: that of the
\* action in progress when its first Exec is made, any when Exec is looked
\* at on its own.
CopyBodies ==
    IF act.a.type = "none" THEN FileActions
    ELSE IF act.a.type = "file" /\ act.n = 1 THEN {act.a}
    ELSE {}

\* The body of this Exec only starts a remote command (shell, apt, chown).
PlainBody == act.a.type = "none" \/ CopyBodies = {}

\* err, errGroup := fn(sess).  The body fails before or at sess.Start (and
\* gives no errgroup), or starts the remote command, alone or, in
\* FileAction.Run, with copyFile launched in an errgroup on the size that
\* f.Stat() gave.
Body ==
    /\ ex.pc = "fn"
    /\ \/ /\ ex' = [ex EXCEPT !.pc = PrepErrorNext, !.err = {"prep"},
                              !.ret = {"prep"}]
          /\ UNCHANGED <<cmd, cp>>
       \/ /\ PlainBody
          /\ ex' = [ex EXCEPT !.pc = "wait"]
          /\ cmd' = [cmd EXCEPT !.state = "running"]
          /\ UNCHANGED cp
       \/ /\ ex' = [ex EXCEPT !.pc = "wait", !.errGroup = TRUE]
          /\ cmd' = [cmd EXCEPT !.state = "running"]
          /\ \E a \in CopyBodies : \E size \in 0..MaxFileSize :
                cp' = [pc |-> "header", err |-> FALSE, mode |-> FileMode(a.Mode),
                       size |-> size, dest |-> a.Dest]
    /\ UNCHANGED <<withTerminal, ctxDone, sess, wpc, stdinOps, counts, runVars, act>>

\* The remote command exits, with or without an error.
CmdExit ==
    /\ cmd.state = "running"
    /\ \E e \in BOOLEAN : cmd' = [cmd EXCEPT !.state = "exited", !.err = e]
    /\ UNCHANGED <<withTerminal, ctxDone, sess, ex, wpc, cp, stdinOps, counts,
                   runVars, act>>

\* err = sess.wait(): returns once the remote command has exited; on a
\* session whose command was never started it returns an error at once.
Wait ==
    /\ ex.pc = "wait"
    /\ cmd.state # "running"
    /\ counts' = [counts EXCEPT !.wait = @ + 1]
    /\ ex' = [ex EXCEPT !.pc = IF ex.errGroup THEN "errGroup.Wait" ELSE "return",
                        !.err = IF cmd.err \/ cmd.state = "none"
                                THEN {"cmd"} ELSE {}]
    /\ UNCHANGED <<withTerminal, ctxDone, sess, wpc, cp, cmd, stdinOps, runVars, act>>

\* Mutant of AsyncError: the side task's error is kept only when the command
\* succeeded.
AsyncErrorDropped(err, asyncErr) ==
    IF asyncErr /\ err = {} THEN {"async"} ELSE err

\* fmt.Errorf("%s: failed async ssh operation: %s", err, asyncErr) when the
\* side task failed: the message carries err's text and asyncErr's.
AsyncError(err, asyncErr) == IF asyncErr THEN err \cup {"async"} ELSE err

\* asyncErr := errGroup.Wait(): returns once the side task has returned.
AsyncWait ==
    /\ ex.pc = "errGroup.Wait"
    /\ cp.pc = "done"
    /\ counts' = [counts EXCEPT !.asyncWait = @ + 1]
    /\ ex' = [ex EXCEPT !.pc = "return", !.err = AsyncError(ex.err, cp.err)]
    /\ UNCHANGED <<withTerminal, ctxDone, sess, wpc, cp, cmd, stdinOps, runVars, act>>

\* Exec's final return statements; the deferred close runs next.
Return ==
    /\ ex.pc = "return"
    /\ ex' = [ex EXCEPT !.pc = "close quit", !.ret = ExecResult(ex.err, ctxDone)]
    /\ UNCHANGED <<withTerminal, ctxDone, sess, wpc, cp, cmd, stdinOps, counts,
                   runVars, act>>

\* Session.close: close(s.sigintHandlerQuitChan)
CloseQuit ==
    /\ ex.pc = "close quit"
    /\ sess.quitChan = "open"
    /\ sess' = [sess EXCEPT !.quitChan = "closed"]
    /\ counts' = [counts EXCEPT !.quit = @ + 1]
    /\ ex' = [ex EXCEPT !.pc = "CloseStdin"]
    /\ UNCHANGED <<withTerminal, ctxDone, wpc, cp, cmd, stdinOps, runVars, act>>

\* Session.close: `err := s.CloseStdin(); if err != nil { return ... }`
AfterCloseStdin(failed) == IF failed THEN "returned" ELSE "sshSess.Close"

\* Session.close: the CloseStdin call and the test of its result.
ExecCloseStdin ==
    /\ ex.pc = "CloseStdin"
    /\ \E closeErr \in BOOLEAN :
         /\ CloseStdin("exec", closeErr)
         /\ ex' = [ex EXCEPT !.pc =
                      AfterCloseStdin(
                          CloseStdinErr(OnceDo(sess.onceDone), closeErr))]
    /\ UNCHANGED <<withTerminal, ctxDone, wpc, cp, cmd, counts, runVars, act>>

\* Session.close: s.sshSess.Close(); Exec has returned.
SessClose ==
    /\ ex.pc = "sshSess.Close"
    /\ sess' = [sess EXCEPT !.sshSess = "closed"]
    /\ counts' = [counts EXCEPT !.sessClose = @ + 1]
    /\ ex' = [ex EXCEPT !.pc = "returned"]
    /\ UNCHANGED <<withTerminal, ctxDone, wpc, cp, cmd, stdinOps, runVars, act>>

----------------------------------------------------------------------------
\* The watcher goroutine of newSession.

\* Mutant of WatcherWrites: the interrupt byte is written on every session.
WatcherWritesAlways(terminal) == TRUE

\* `if withTerminal { stdin.Write([]byte("\x03")) }`
WatcherWrites(terminal) == terminal

\* select: case <-ctx.Done()
WatcherCancelled ==
    /\ wpc = "select"
    /\ ctxDone
    /\ wpc' = IF WatcherWrites(withTerminal) THEN "write" ELSE "CloseStdin"
    /\ UNCHANGED <<withTerminal, ctxDone, sess, ex, cp, cmd, stdinOps, counts,
                   runVars, act>>

\* Mutant of QuitReady: a closed quit channel never wakes the watcher.
QuitReadyNever(quitChan) == FALSE

\* `case <-quitChan` is ready once Session.close has closed the channel.
QuitReady(quitChan) == quitChan = "closed"

\* select: case <-quitChan
WatcherQuit ==
    /\ wpc = "select"
    /\ QuitReady(sess.quitChan)
    /\ wpc' = "done"
    /\ UNCHANGED <<withTerminal, ctxDone, sess, ex, cp, cmd, stdinOps, counts,
                   runVars, act>>

\* stdin.Write([]byte("\x03")); an error is logged only.
WatcherWrite ==
    /\ wpc = "write"
    /\ \E ok \in BOOLEAN : WriteStdin("watcher", "\\x03", ok)
    /\ wpc' = "CloseStdin"
    /\ UNCHANGED <<withTerminal, ctxDone, sess, ex, cp, cmd, counts, runVars, act>>

\* sess.CloseStdin(); an error is logged only.  The goroutine ends.
WatcherCloseStdin ==
    /\ wpc = "CloseStdin"
    /\ \E closeErr \in BOOLEAN : CloseStdin("watcher", closeErr)
    /\ wpc' = "done"
    /\ UNCHANGED <<withTerminal, ctxDone, ex, cp, cmd, counts, runVars, act>>

----------------------------------------------------------------------------
\* The side task: copyFile, run in the errgroup of FileAction.Run's body.

\* The write that follows a successful write of copyFile.
CopyNext(at) ==
    CASE at = "header" -> "body"
      [] at = "body" -> "terminator"
      [] at = "terminator" -> "CloseStdin"

\* Mutant of CopyFailed: a failed write is ignored and copyFile goes on.
CopyFailedIgnored(c) == [c EXCEPT !.pc = CopyNext(c.pc)]

\* `if err != nil { return fmt.Errorf(...) }` after a write: copyFile
\* returns the error, through the deferred CloseStdin.
CopyFailed(c) == [c EXCEPT !.pc = "CloseStdin", !.err = TRUE]

\* n bytes of the source file.
RECURSIVE Bytes(_)
Bytes(n) == IF n = 0 THEN "" ELSE "b" \o Bytes(n - 1)

\* What one of copyFile's writes sends when it writes n bytes of the file:
\* the header line, n bytes of the file, the NUL byte.
CopyData(c, n) ==
    CASE c.pc = "header" -> Header(c.mode, c.size, c.dest)
      [] c.pc = "body" -> Bytes(n)
      [] c.pc = "terminator" -> "\\x00"

\* One of copyFile's three writes: fmt.Fprintln of the header, io.Copy of
\* the file, fmt.Fprint of the NUL byte.  io.Copy succeeds when it has
\* written the whole file, and fails after fewer bytes.
CopyWrite ==
    /\ cp.pc \in {"header", "body", "terminator"}
    /\ ~(cp.pc = "body" /\ cp.size = 0)
    /\ \E ok \in BOOLEAN : \E n \in 0..cp.size :
         /\ ok => n = cp.size
         /\ (~ok /\ cp.pc = "body") => n < cp.size
         /\ cp.pc # "body" => n = cp.size
         /\ WriteStdin("copyFile", CopyData(cp, n), ok)
         /\ cp' = IF ok THEN [cp EXCEPT !.pc = CopyNext(cp.pc)]
                  ELSE CopyFailed(cp)
    /\ UNCHANGED <<withTerminal, ctxDone, sess, ex, wpc, cmd, counts,
                   runVars, act>>

\* io.Copy of an empty file: the first Read gives EOF and nothing is written.
CopyEmpty ==
    /\ cp.pc = "body"
    /\ cp.size = 0
    /\ cp' = [cp EXCEPT !.pc = CopyNext(cp.pc)]
    /\ UNCHANGED stdinOps
    /\ UNCHANGED <<withTerminal, ctxDone, sess, ex, wpc, cmd, counts, runVars, act>>

\* copyFile's `defer sess.CloseStdin()`; its result is dropped.
CopyCloseStdin ==
    /\ cp.pc = "CloseStdin"
    /\ \E closeErr \in BOOLEAN : CloseStdin("copyFile", closeErr)
    /\ cp' = [cp EXCEPT !.pc = "done"]
    /\ UNCHANGED <<withTerminal, ctxDone, ex, wpc, cmd, counts, runVars, act>>

----------------------------------------------------------------------------
\* The context.

\* ctx is cancelled, or its deadline passes, before Exec has returned.
CtxCancel ==
    /\ ~ctxDone
    /\ ex.pc # "returned"
    /\ ctxDone' = TRUE
    /\ cmd' = [cmd EXCEPT !.interrupted = (cmd.state = "running")]
    /\ UNCHANGED <<withTerminal, sess, ex, wpc, cp, stdinOps, counts, runVars, act>>

\* Playbook.Run: cancel(), called once a.Run, and so its last Exec, has
\* returned.
ReleaseContext ==
    /\ ~ctxDone
    /\ ex.pc = "returned"
    /\ act.a.type = "none" \/ act.returned
    /\ ctxDone' = TRUE
    /\ UNCHANGED <<withTerminal, sess, ex, wpc, cp, cmd, stdinOps, counts,
                   runVars, act>>

----------------------------------------------------------------------------
\* One call of Exec on an established connection, with either value of
\* withTerminal.  The scheduler's variables play no part.

InitExec ==
    /\ inventory = <<>>
    /\ conf = [MaxConcurrentConnections |-> 1]
    /\ playbook = [Tasks |-> <<>>]
    /\ pc = "exec"
    /\ start = 0
    /\ end = 0
    /\ i = 1
    /\ connections = <<>>
    /\ wg = 0
    /\ client = <<>>
    /\ gpc = <<>>
    /\ pos = <<>>
    /\ ran = <<>>
    /\ dials = <<>>
    /\ launches = <<>>
    /\ setErrors = <<>>
    /\ dones = <<>>
    /\ closes = <<>>
    /\ slices = <<>>
    /\ ctx = [done |-> FALSE, inRun |-> FALSE]
    /\ actionCtx = <<>>
    /\ OthersIdle
    /\ act = NoAction
    /\ \E terminal \in BOOLEAN : ExecStart(terminal)

NextExec ==
    \/ NewSession
    \/ StdinPipe
    \/ RequestPty
    \/ StartWatcher
    \/ Body
    \/ CmdExit
    \/ Wait
    \/ AsyncWait
    \/ Return
    \/ CloseQuit
    \/ ExecCloseStdin
    \/ SessClose
    \/ WatcherCancelled
    \/ WatcherQuit
    \/ WatcherWrite
    \/ WatcherCloseStdin
    \/ CopyWrite
    \/ CopyEmpty
    \/ CopyCloseStdin
    \/ CtxCancel
    \/ ReleaseContext

SpecExec == InitExec /\ [][NextExec]_vars

----------------------------------------------------------------------------
\* One call of Action.Run(ctx, conn, conf) on an established connection: the
\* Execs it makes, one after the other, each as above.

\* The withTerminal argument of the action's k-th Exec.
Terminal(a, k) == ~(a.type = "file" /\ k = 1)

\* The remote command of the action's k-th Exec.
Command(a, k) ==
    CASE a.type = "file" -> IF k = 1 THEN "scp -qt" ELSE "chown"
      [] a.type = "apt" -> IF k = 1 THEN "apt-get update" ELSE "apt-get install"
      [] a.type = "shell" -> "shell"

\* Mutant of Chown: the follow-up is issued when either is set.
ChownEither(a) == a.Owner # "" \/ a.Group # ""

\* FileAction.Run: `if a.Owner != "" && a.Group != ""`
Chown(a) == a.Owner # "" /\ a.Group # ""

\* After the k-th Exec returned nil, Run makes another Exec: the chown of a
\* file action, the next package of an apt action.
MoreExecs(a, k) ==
    CASE a.type = "file" -> k = 1 /\ Chown(a)
      [] a.type = "apt" -> k <= Len(a.Pkg)
      [] a.type = "shell" -> FALSE

\* What Run keeps of an Exec that has returned.
Finished ==
    [n |-> act.n, withTerminal |-> withTerminal, command |-> Command(act.a, act.n),
     started |-> cmd.state # "none", ret |-> ex.ret,
     created |-> sess.created, sshSess |-> sess.sshSess]

\* Mutant of ExecFailed: Run goes on after an Exec that returned an error.
ExecFailedIgnored(ret) == FALSE

\* `if err != nil { return fmt.Errorf(...) }` after an Exec
ExecFailed(ret) == ret # {}

\* An Exec of the action has returned.  Run returns its error, or makes its
\* next Exec on the same connection and under the same ctx, or returns nil.
\* The watcher of the Exec that returned, if it still runs, is left aside:
\* it acts on that Exec's session only.
ExecReturn ==
    /\ act.a.type # "none"
    /\ ~act.returned
    /\ ex.pc = "returned"
    /\ IF ~ExecFailed(ex.ret) /\ MoreExecs(act.a, act.n)
       THEN /\ act' = [act EXCEPT !.log = Append(@, Finished), !.n = @ + 1]
            /\ withTerminal' = Terminal(act.a, act.n + 1)
            /\ sess' = [sshSess |-> "none", stdin |-> "none", onceDone |-> FALSE,
                        quitChan |-> "nil", created |-> FALSE]
            /\ ex' = [pc |-> "NewSession", err |-> {}, errGroup |-> FALSE,
                      ret |-> {}]
            /\ wpc' = "none"
            /\ cp' = NoCopy
            /\ cmd' = [state |-> "none", err |-> FALSE, interrupted |-> FALSE]
            /\ stdinOps' = <<>>
            /\ counts' = NoCalls
       ELSE /\ act' = [act EXCEPT !.log = Append(@, Finished),
                                  !.returned = TRUE, !.ret = ex.ret]
            /\ UNCHANGED <<withTerminal, sess, ex, wpc, cp, cmd, stdinOps,
                           counts>>
    /\ UNCHANGED <<ctxDone, runVars>>

InitAction ==
    /\ inventory = <<>>
    /\ conf = [MaxConcurrentConnections |-> 1]
    /\ playbook = [Tasks |-> <<>>]
    /\ pc = "action"
    /\ start = 0
    /\ end = 0
    /\ i = 1
    /\ connections = <<>>
    /\ wg = 0
    /\ client = <<>>
    /\ gpc = <<>>
    /\ pos = <<>>
    /\ ran = <<>>
    /\ dials = <<>>
    /\ launches = <<>>
    /\ setErrors = <<>>
    /\ dones = <<>>
    /\ closes = <<>>
    /\ slices = <<>>
    /\ ctx = [done |-> FALSE, inRun |-> FALSE]
    /\ actionCtx = <<>>
    /\ OthersIdle
    /\ \E a \in Actions :
         /\ act = [a |-> a, n |-> 1, log |-> <<>>, returned |-> FALSE, ret |-> {}]
         /\ ExecStart(Terminal(a, 1))

NextAction ==
    \/ NextExec
    \/ ExecReturn

SpecAction == InitAction /\ [][NextAction]_vars

\* The watcher is a goroutine of its own: the Go scheduler runs it whenever
\* it can take a step.
WatcherFair ==
    /\ WF_vars(WatcherCancelled)
    /\ WF_vars(WatcherQuit)
    /\ WF_vars(WatcherWrite)
    /\ WF_vars(WatcherCloseStdin)

SpecExecFair == SpecExec /\ WatcherFair

----------------------------------------------------------------------------
\* Vocabulary of the properties of Exec

\* Exec has returned.
ExecReturned == ex.pc = "returned"

\* The entries of stdinOps made by `who` with operation `op`.
OpsOf(who, op) ==
    {k \in DOMAIN stdinOps : stdinOps[k].who = who /\ stdinOps[k].op = op}

\* The CloseStdin calls, and those that performed stdin.Close().
CloseStdinCalls == {k \in DOMAIN stdinOps : stdinOps[k].op = "CloseStdin"}
StdinCloses == {k \in CloseStdinCalls : stdinOps[k].done}

\* The body returned a preparation error: the session exists, fn has
\* returned and the remote command was not started.
BodyFailed == sess.created /\ ex.pc # "fn" /\ cmd.state = "none"

\* The failures in flight that Exec has seen: of the command, of the side task.
InFlight ==
    (IF cmd.err THEN {"cmd"} ELSE {})
        \cup (IF ex.errGroup /\ cp.err THEN {"async"} ELSE {})

----------------------------------------------------------------------------
\* C11: once Exec has created a Session, the Session is closed before Exec
\* returns, whatever the outcome: stdin is closed and the underlying ssh
\* session is closed.
C11_SessionAlwaysClosed ==
    (ExecReturned /\ sess.created) =>
        sess.stdin = "closed" /\ sess.sshSess = "closed"

\* C12: the underlying stdin close is performed at most once at any time
\* and, for a Session that Exec created, exactly once when Exec has returned.
C12_StdinClosedExactlyOnce ==
    /\ Cardinality(StdinCloses) <= 1
    /\ (ExecReturned /\ sess.created) => Cardinality(StdinCloses) = 1

\* C12 witness: Exec has returned after the side task, the watcher and
\* Exec's own cleanup have each called CloseStdin.
C12_Witness ==
    /\ ExecReturned
    /\ OpsOf("copyFile", "CloseStdin") # {}
    /\ OpsOf("watcher", "CloseStdin") # {}
    /\ OpsOf("exec", "CloseStdin") # {}

\* C13: of the CloseStdin calls only the first performs the close, and it
\* returns the result of the close; every later call performs none and
\* returns no error.
C13_CloseStdinIdempotent ==
    \A k \in CloseStdinCalls :
        /\ stdinOps[k].done = (\A j \in CloseStdinCalls : j >= k)
        /\ stdinOps[k].done => stdinOps[k].err = (stdinOps[k].data = "close failed")
        /\ ~stdinOps[k].done => ~stdinOps[k].err

\* C13 witness: three CloseStdin calls, the first of which returned the
\* error of the close.
C13_Witness ==
    /\ Cardinality(CloseStdinCalls) = 3
    /\ \E k \in CloseStdinCalls : stdinOps[k].done /\ stdinOps[k].err

\* C14: when the body returns a preparation error, Exec calls neither wait
\* nor the side task's Wait, and returns a non-nil error.
C14_PrepErrorSkipsWait ==
    BodyFailed =>
        /\ counts.wait = 0
        /\ counts.asyncWait = 0
        /\ ExecReturned => ex.ret # {}

\* C14 witness: Exec has returned the body's preparation error.
C14_Witness == BodyFailed /\ ExecReturned /\ ex.ret = {"prep"}

\* C15: when ctx is cancelled while the remote command is running, Exec
\* returns a non-nil error, and the context's error when neither the command
\* nor the side task failed.
C15_CancelledExecFails ==
    (ExecReturned /\ cmd.interrupted) =>
        /\ ex.ret # {}
        /\ InFlight = {} => ex.ret = {"ctx"}

\* C15 witness: ctx was cancelled while the command ran; the command and the
\* side task finished without error and Exec returned.
C15_Witness ==
    /\ ExecReturned
    /\ cmd.interrupted
    /\ ex.errGroup
    /\ ~cmd.err /\ ~cp.err
    /\ counts.asyncWait = 1

\* C16: with a side task, Exec waits for the command and then for the side
\* task before it returns, and the returned error carries the failure of
\* each of the two that failed.
C16_SideTaskAwaitedAndReported ==
    /\ counts.asyncWait <= counts.wait
    /\ (ExecReturned /\ ex.errGroup) =>
          /\ counts.wait = 1
          /\ counts.asyncWait = 1
          /\ cp.pc = "done"
          /\ cmd.err => "cmd" \in ex.ret
          /\ cp.err => "async" \in ex.ret

\* C16 witness: the command and the side task both failed and Exec returned.
C16_Witness ==
    /\ ExecReturned
    /\ ex.errGroup
    /\ cmd.err /\ cp.err
    /\ ex.ret = {"cmd", "async"}

\* C17 as stated: when ctx is cancelled and the command or the side task
\* fails in the same Exec, the returned error carries the context's error
\* and the failure in flight.
C17_CancellationCombined ==
    (ExecReturned /\ cmd.interrupted /\ InFlight # {}) =>
        /\ "ctx" \in ex.ret
        /\ InFlight \subseteq ex.ret

\* C17 amended: in that case the returned error is the failure in flight,
\* which the context's error does not replace and to which it is not added.
C17_InFlightErrorAlone ==
    (ExecReturned /\ cmd.interrupted /\ InFlight # {}) =>
        ex.ret = InFlight

\* C17 witness: ctx was cancelled while the command ran, the command failed
\* and Exec returned.
C17_Witness ==
    /\ ExecReturned
    /\ cmd.interrupted
    /\ cmd.err
    /\ ctxDone

\* C18: once Exec has returned, no write to stdin and no CloseStdin is
\* attempted (the watcher has stopped), also when ctx is cancelled right
\* after Exec returned.
C18_NoStdinUseAfterExec ==
    \A k \in DOMAIN stdinOps : ~stdinOps[k].late

\* C20: the watcher writes only the interrupt byte, only on a session with a
\* pseudo-terminal and before its CloseStdin; on a session without one it
\* only closes stdin; while ctx is not cancelled it writes and closes
\* nothing.
C20_WatcherInterruptsThenCloses ==
    /\ \A k \in OpsOf("watcher", "write") : stdinOps[k].data = "\\x03"
    /\ Cardinality(OpsOf("watcher", "write")) <= 1
    /\ withTerminal =>
         /\ wpc = "CloseStdin" => OpsOf("watcher", "write") # {}
         /\ \A k \in OpsOf("watcher", "CloseStdin") :
               \E j \in OpsOf("watcher", "write") : j < k
    /\ ~withTerminal => OpsOf("watcher", "write") = {}
    /\ ~ctxDone =>
         OpsOf("watcher", "write") \cup OpsOf("watcher", "CloseStdin") = {}
    /\ (wpc = "done" /\ OpsOf("watcher", "CloseStdin") = {}) =>
         OpsOf("watcher", "write") = {}

\* C20 witness: on a session with a pseudo-terminal the watcher wrote the
\* interrupt byte and then performed the close of stdin.
C20_Witness ==
    /\ withTerminal
    /\ wpc = "done"
    /\ \E j \in OpsOf("watcher", "write") :
         \E k \in OpsOf("watcher", "CloseStdin") :
            j < k /\ stdinOps[j].done /\ stdinOps[k].done

----------------------------------------------------------------------------
\* C19: a connection's ssh client is closed exactly once, by the scheduler
\* after the goroutines of its slice have joined: while a host's goroutine
\* is running its client is open, and when Run has returned every client
\* that was opened has been closed once.
C19_ClientClosedOnceByScheduler ==
    /\ \A h \in Hosts :
         gpc[h] \in {"loop", "run", "deferred"} => client[h] = "open"
    /\ pc = "done" =>
         \A h \in Hosts : DialSucceededOn(h) => closes[h] = 1

----------------------------------------------------------------------------
\* C21: for a Session that newSession returned, the quit channel is closed
\* at most once at any time and exactly once when Exec has returned, and
\* the watcher goroutine terminates once ctx is cancelled or the Session is
\* closed.
C21_QuitOnceWatcherTerminates ==
    /\ [](counts.quit <= 1)
    /\ []((ExecReturned /\ sess.created) =>
             (counts.quit = 1 /\ sess.quitChan = "closed"))
    /\ ((sess.created /\ (ctxDone \/ sess.quitChan = "closed"))
            ~> (wpc = "done"))

\* C21 witness: Exec returned without cancellation; the quit channel was
\* closed once and the watcher ended through its quit branch.
C21_Witness ==
    /\ ExecReturned
    /\ sess.created
    /\ ~ctxDone
    /\ counts.quit = 1
    /\ wpc = "done"

----------------------------------------------------------------------------
\* Vocabulary of the properties of the file transfer

IsCopyOp(e) == e.who = "copyFile"
IsWrite(e) == e.op = "write"
IsDoneWrite(e) == e.op = "write" /\ e.done

\* What copyFile did on stdin, in order, and its writes.
CopyOps == SelectSeq(stdinOps, IsCopyOp)
CopyWrites == SelectSeq(CopyOps, IsWrite)

\* The data copyFile has written with success, in order.
CopySent ==
    LET w == SelectSeq(CopyOps, IsDoneWrite) IN [k \in DOMAIN w |-> w[k].data]

\* The scp stream for a file of the given size copied by file action a.
ScpStream(a, size) ==
    <<"C" \o (IF a.Mode = "" THEN "0644" ELSE a.Mode) \o " " \o ToString(size)
          \o " " \o a.Dest[Len(a.Dest)] \o "\n">>
      \o (IF size > 0 THEN <<Bytes(size)>> ELSE <<>>)
      \o <<"\\x00">>

\* copyFile has been launched by the transfer of a file action.
Copying == act.a.type = "file" /\ act.n = 1 /\ cp.pc # "none"

\* C22: what copyFile writes with success is, in order, the header line
\* "C<mode> <size> <base name of dest>\n" with mode 0644 when the action
\* sets none, the size bytes of the file, one NUL byte, and nothing else;
\* when it returns nil it has written all three and then called CloseStdin,
\* once and last.
C22_ScpStreamInOrder ==
    Copying =>
        /\ IsPrefix(CopySent, ScpStream(act.a, cp.size))
        /\ \A k \in DOMAIN CopyOps :
              CopyOps[k].op = "CloseStdin" => k = Len(CopyOps)
        /\ (cp.pc = "done" /\ ~cp.err) =>
              /\ CopySent = ScpStream(act.a, cp.size)
              /\ Len(CopyWrites) = Len(CopySent)
              /\ Len(CopyOps) = Len(CopySent) + 1
              /\ CopyOps[Len(CopyOps)].op = "CloseStdin"

\* C22 witness: copyFile has returned nil after copying a file that is not
\* empty, for an action that sets no mode.
C22_Witness ==
    /\ Copying
    /\ cp.pc = "done" /\ ~cp.err
    /\ cp.size > 0
    /\ act.a.Mode = ""

\* C23: after a failed write copyFile writes nothing more and returns an
\* error; Exec then returns an error that carries it, the file action
\* returns an error without a further Exec, and the close of stdin has been
\* performed once.
C23_FailedWriteEndsTransfer ==
    /\ Copying =>
          /\ \A k \in DOMAIN CopyWrites :
                ~CopyWrites[k].done => k = Len(CopyWrites)
          /\ cp.pc \in {"CloseStdin", "done"} =>
                (cp.err <=> \E k \in DOMAIN CopyWrites : ~CopyWrites[k].done)
          /\ (ExecReturned /\ cp.err) =>
                /\ "async" \in ex.ret
                /\ Cardinality(StdinCloses) = 1
    /\ (act.a.type = "file" /\ Len(act.log) >= 1 /\ "async" \in act.log[1].ret) =>
          /\ act.returned
          /\ act.ret # {}
          /\ Len(act.log) = 1

\* C23 witness: ctx was cancelled, the watcher closed stdin, the write of
\* the file's bytes then failed after fewer bytes than the size, and the
\* file action has returned.
C23_Witness ==
    /\ act.a.type = "file"
    /\ act.returned
    /\ cp.err
    /\ cp.size > 0
    /\ \E j \in OpsOf("watcher", "CloseStdin") :
         \E k \in OpsOf("copyFile", "write") :
            /\ j < k
            /\ stdinOps[j].done
            /\ ~stdinOps[k].done
            /\ stdinOps[k].data = Bytes(cp.size - 1)

----------------------------------------------------------------------------
\* C24: in a file action the first Exec, the transfer, has no
\* pseudo-terminal; a second Exec is made only after the transfer returned
\* nil and only when an owner and a group are set, it is the chown and has
\* a pseudo-terminal; after a failed transfer there is no second Exec.
C24_ChownAfterTransfer ==
    act.a.type = "file" =>
        /\ act.n <= 2
        /\ act.n = 1 => ~withTerminal
        /\ act.n = 2 =>
              /\ withTerminal
              /\ act.a.Owner # "" /\ act.a.Group # ""
        /\ \A k \in DOMAIN act.log :
              /\ act.log[k].n = k
              /\ k = 1 => act.log[k].command = "scp -qt" /\ ~act.log[k].withTerminal
              /\ k = 2 => /\ act.log[k].command = "chown"
                          /\ act.log[k].withTerminal
                          /\ act.log[1].ret = {}
        /\ (Len(act.log) >= 1 /\ act.log[1].ret # {}) =>
              act.n = 1 /\ Len(act.log) = 1
        /\ (act.returned /\ act.ret = {}) =>
              Len(act.log) = (IF act.a.Owner # "" /\ act.a.Group # "" THEN 2 ELSE 1)

\* C24 witness: a file action has returned after its transfer and then its
\* chown.
C24_Witness ==
    /\ act.a.type = "file"
    /\ act.returned
    /\ Len(act.log) = 2
    /\ act.log[1].ret = {}
    /\ act.log[2].command = "chown" /\ act.log[2].started

----------------------------------------------------------------------------
\* The sessions of the connection that have been created and whose
\* sshSess.Close() has not been called: those of the Execs that returned,
\* and that of the Exec in progress.
OpenSessions ==
    Cardinality({k \in DOMAIN act.log : act.log[k].sshSess = "open"})
        + (IF sess.sshSess = "open" /\ ~act.returned THEN 1 ELSE 0)

\* C30: at any time at most one Session of a connection is open, that is
\* created and not yet closed.
C30_OneOpenSessionPerConnection == OpenSessions <= 1

----------------------------------------------------------------------------
\* Vocabulary of the properties of the process

\* Run has returned (main is reporting, or the process has exited).
AfterRun == pc \in {"done", "select", "exit", "fatal"}

\* The goroutine of host h has been launched and has not returned.
Active(h) == gpc[h] \in {"loop", "run", "deferred"}

\* seq holds x.
Holds(seq, x) == \E k \in DOMAIN seq : seq[k] = x

\* C25: every action runs under a context of its own, derived from main's
\* ctx and released when the action has returned; while an action runs its
\* context is done only if main's ctx is cancelled or its own deadline has
\* passed, and releasing a context never cancels main's ctx.
C25_OwnContextPerAction ==
    /\ [](\A h \in Hosts :
            /\ Len(actionCtx[h]) = Len(ran[h])
            /\ \A k \in DOMAIN actionCtx[h] :
                  /\ actionCtx[h][k].parent = 0
                  /\ actionCtx[h][k].released <=> ran[h][k].result # Running
                  /\ (ran[h][k].result = Running /\ CtxIsDone(h, k)) =>
                        (ctx.done \/ actionCtx[h][k].expired))
    /\ [][ctx'.done # ctx.done => UNCHANGED <<actionCtx, ran, gpc>>]_vars

\* C25 witness: on a host the first action has returned and its context is
\* released, and the second action runs under a context that is not done.
C25_Witness ==
    \E h \in Hosts :
        /\ Len(actionCtx[h]) = 2
        /\ actionCtx[h][1].released
        /\ ran[h][2].result = Running
        /\ ~CtxIsDone(h, 2)

\* C26: an action started after main's ctx was cancelled returns an error;
\* and when Run has returned, cancelled or not, every host has been dialled
\* once, every connection has had its playbook launched once, and a host
\* whose first action started after the cancellation has a recorded error
\* and is not in the completed list.
C26_CancelledRunFailsFast ==
    /\ \A h \in Hosts : \A k \in DOMAIN actionCtx[h] :
          (actionCtx[h][k].lateStart /\ ran[h][k].result # Running) =>
              ran[h][k].result # Nil
    /\ AfterRun =>
          \A h \in Hosts :
              /\ dials[h] = 1
              /\ DialSucceededOn(h) => launches[h] = 1
              /\ (Len(actionCtx[h]) >= 1 /\ actionCtx[h][1].lateStart) =>
                    /\ GetError(inventory[h]) # Nil
                    /\ ~Holds(GetAllCompletedServers(inventory),
                              GetAddress(inventory[h]))
              /\ (DialSucceededOn(h) /\ DeclaredActions(playbook) # <<>>) =>
                    Len(actionCtx[h]) >= 1

\* C26 witness: with one connection at a time, the first host completed,
\* the signal came, and the second host was still dialled and had its
\* playbook launched, whose first action failed.
C26_Witness ==
    /\ AfterRun
    /\ ctx.done /\ ctx.inRun
    /\ Len(inventory) = 2
    /\ conf.MaxConcurrentConnections = 1
    /\ GetError(inventory[1]) = Nil
    /\ Len(ran[1]) >= 1
    /\ DialSucceededOn(2)
    /\ Len(actionCtx[2]) = 1
    /\ actionCtx[2][1].lateStart

\* C27: the process ends abnormally only if main's ctx was cancelled while
\* Run was in progress; otherwise, with failed hosts or without, it exits
\* normally.
C27_AbnormalOnlyIfCutShort ==
    /\ pc = "fatal" => (ctx.done /\ ctx.inRun)
    /\ (pc \in {"exit", "fatal"} /\ ~(ctx.done /\ ctx.inRun)) => pc = "exit"

\* C28: after any sequence of SetError calls the completed list and the
\* failed list partition the inventory: each server's address is in one of
\* them and not in the other, in the failed list exactly when its recorded
\* error is not nil, and each list is in inventory order.
C28_CompletedFailedPartition ==
    LET completed == GetAllCompletedServers(inventory)
        failed == GetAllFailedServers(inventory)
    IN  /\ Len(completed) + Len(failed) = Len(inventory)
        /\ \A h \in Hosts :
              /\ Holds(failed, GetAddress(inventory[h]))
                    <=> inventory[h].playbookErr # Nil
              /\ Holds(completed, GetAddress(inventory[h]))
                    <=> ~Holds(failed, GetAddress(inventory[h]))
        /\ \A j, k \in DOMAIN completed :
              j < k => completed[j][1] < completed[k][1]
        /\ \A j, k \in DOMAIN failed :
              j < k => failed[j][1] < failed[k][1]

\* C28 witness: an inventory of three servers in which the first and the
\* last have a recorded error and the second, after an error, had it reset
\* to nil.
C28_Witness ==
    /\ Len(inventory) = 3
    /\ inventory[1].playbookErr # Nil
    /\ inventory[3].playbookErr # Nil
    /\ inventory[2].playbookErr = Nil
    /\ setErrors[2] = 2
    /\ Len(GetAllFailedServers(inventory)) = 2

\* C29: a server's recorded error is not accessed by two goroutines at
\* once.  The scheduler is in its dial loop only while no goroutine of the
\* slice has been launched; goroutines run only while the scheduler
\* launches or waits; main reads the errors only when no goroutine runs;
\* and a server's error changes only in a step of the dial loop on that
\* server, not yet launched, or in a step of that server's own goroutine.
C29_OutcomeFieldNotShared ==
    /\ [](/\ pc = "dial" => \A h \in Hosts : ~Active(h)
          /\ \A h \in Hosts : Active(h) => pc \in {"launch", "wait"}
          /\ AfterRun => \A h \in Hosts : gpc[h] \in {"idle", "returned"})
    /\ [][\A h \in Hosts :
            inventory'[h].playbookErr # inventory[h].playbookErr =>
                \/ pc = "dial" /\ i = h /\ gpc[h] = "idle" /\ gpc' = gpc
                \/ /\ gpc[h] = "run" /\ gpc'[h] = "deferred"
                   /\ pc' = pc /\ i' = i
                   /\ \A g \in Hosts \ {h} : gpc'[g] = gpc[g]]_vars

\* C29 witness: main is reporting after a run in which, in one slice, the
\* dial of one host failed and an action failed on another.
C29_Witness ==
    /\ pc = "select"
    /\ \E h, g \in Hosts :
         /\ inventory[h].playbookErr.kind = "connect"
         /\ inventory[g].playbookErr.kind = "action"
         /\ Len(slices) = 1

----------------------------------------------------------------------------
\* The step in which the result of Exec is decided: a failure of newSession,
\* a preparation error of the body, or one of the final return statements.
ExecDecides ==
    /\ ex.pc \in {"NewSession", "StdinPipe", "RequestPty", "fn", "return"}
    /\ ex'.pc \in {"close quit", "returned"}

\* C36: Exec returns nil exactly when the session was created, the body
\* started the remote command, the wait on the command returned no error,
\* the side task, if there is one, returned no error, and ctx is not done
\* when Exec returns.
C36_NilIffEverythingSucceeded ==
    [][ExecDecides =>
         (ex'.ret = {} <=>
             /\ sess.created
             /\ cmd.state = "exited" /\ ~cmd.err
             /\ ex.errGroup => (cp.pc = "done" /\ ~cp.err)
             /\ ~ctxDone)]_vars

\* C36 witness: an Exec with a side task has returned nil.
C36_Witness ==
    /\ ExecReturned
    /\ sess.created
    /\ ex.errGroup
    /\ counts.asyncWait = 1
    /\ ex.ret = {}

\* C37: when newSession fails, Exec returns an error, the body is not
\* invoked, no watcher is started, and what newSession had obtained before
\* the failing step (the ssh session, the stdin pipe) is released.
C37_FailedSetupLeaksNothing ==
    (ExecReturned /\ ~sess.created) =>
        /\ ex.ret # {}
        /\ cmd.state = "none" /\ cp.pc = "none"
        /\ wpc = "none"
        /\ sess.sshSess # "open"
        /\ sess.stdin # "open"

----------------------------------------------------------------------------
\* C32: at the end of the run, a host whose dial failed is in neither of the
\* lists main derives from the inventory, the completed servers and the
\* failed servers.
C32_DialFailedHostInNeitherList ==
    pc = "done" =>
        \A h \in Hosts :
            DialFailedOn(h) =>
                /\ ~Holds(GetAllCompletedServers(inventory), GetAddress(inventory[h]))
                /\ ~Holds(GetAllFailedServers(inventory), GetAddress(inventory[h]))

----------------------------------------------------------------------------
\* C40: Run terminates.  A host's goroutine signals the wait group once, by
\* the success path and by the failure path alike: never twice, and not
\* zero times when it has returned; the wait of every slice returns; and Run
\* returns, after the last slice, with every goroutine it launched returned.
C40_RunTerminates ==
    /\ [](\A h \in Hosts :
            /\ dones[h] <= 1
            /\ dones[h] = IF gpc[h] = "returned" THEN 1 ELSE 0)
    /\ (pc = "wait") ~> (pc = "close")
    /\ <>(pc = "done")
    /\ [](pc = "done" =>
            /\ start >= Len(inventory)
            /\ wg = 0
            /\ \A h \in Hosts : dones[h] = launches[h])

\* C40 witness: Run has returned after two slices; one host's goroutine
\* returned after a failed action, another's after the whole playbook, and
\* each signalled the wait group once.
C40_Witness ==
    /\ pc = "done"
    /\ Len(slices) = 2
    /\ \E h, g \in Hosts :
         /\ SomeFailed(ran[h]) /\ dones[h] = 1
         /\ ran[g] # <<>> /\ AllSucceeded(ran[g]) /\ dones[g] = 1

----------------------------------------------------------------------------
\* main has a Config: NewConfing has returned.
ConfigReturned == pc \notin {"NewConfing", "fatal config"}

\* C31: with max-concurrent-connections = 0 the start fails fast: no Config
\* is returned, no inventory is loaded, no host is dialed and no slice is
\* formed; the process can only exit from NewConfing.
C31_ZeroLimitFailsFast ==
    maxConcurrentConnections = 0 =>
        /\ pc \in {"NewConfing", "fatal config"}
        /\ conf = NoConfig
        /\ inventory = <<>>
        /\ dials = <<>>
        /\ slices = <<>>

\* C31 witness: the process has exited from NewConfing on a zero flag.
C31_Witness == maxConcurrentConnections = 0 /\ pc = "fatal config"

\* C38: for every flag value NewConfing accepts, the Config's
\* MaxConcurrentConnections is at least 1, so that in Run the start of the
\* slices strictly increases, every slice lies within the inventory, and no
\* slice expression panics.
C38_AcceptedLimitIsPositive ==
    ConfigReturned =>
        /\ conf.MaxConcurrentConnections >= 1
        /\ pc # "panic"
        /\ \A k \in DOMAIN slices :
             /\ SliceInRange(slices[k][1], slices[k][2], Len(inventory))
             /\ k > 1 => slices[k - 1][1] < slices[k][1]

----------------------------------------------------------------------------
\* Vocabulary of the properties of ValidateAction.Run

ValReturned == val.pc = "returned"

\* The number of attempts the action asks for: its retries, one when the
\* field is left at zero.
Attempts(Retries) == IF Retries > 0 THEN Retries ELSE 1

\* Every attempt made so far has failed.
AllAttemptsFailed == \A k \in DOMAIN val.attempts : val.attempts[k] # "nil"

\* C33: the attempts are made one after another and end at the first that
\* succeeds, when Run returns nil; Run makes at most `retries` attempts, one
\* when the first succeeds; Run returns the validation error exactly when
\* every attempt failed, and the error carries the failure of the last
\* attempt; and no attempt is made when the request cannot be built.
C33_AttemptsUntilFirstSuccess ==
    /\ \A k \in DOMAIN val.attempts :
         val.attempts[k] = "nil" => (k = Len(val.attempts) /\ ValReturned)
    /\ Len(val.attempts) <= Attempts(val.Retries)
    /\ ValReturned =>
         /\ val.ret.kind = "nil" <=>
               (val.attempts # <<>> /\ val.attempts[Len(val.attempts)] = "nil")
         /\ val.ret.kind = "failed to validate" <=>
               /\ NewRequestErr(val.Scheme) = "nil"
               /\ AllAttemptsFailed
         /\ val.ret.kind = "failed to validate" =>
               /\ Len(val.attempts) = Attempts(val.Retries)
               /\ val.ret.cause = val.attempts[Len(val.attempts)]
         /\ val.ret.kind = "failed to create http request" <=>
               NewRequestErr(val.Scheme) # "nil"
         /\ NewRequestErr(val.Scheme) # "nil" => val.attempts = <<>>

----------------------------------------------------------------------------
\* The call of UnmarshalAction has returned.
UnmarshalReturned == dec.pc = "returned" /\ "actionType" \in DOMAIN dec

\* C34: UnmarshalAction returns an error and no action for a type outside
\* file, apt, service, shell, validate, and for a known type whose input
\* has a key that is no field of the type; when it returns no error, the
\* action's GetType is the type asked for.
C34_UnknownRejectedTypeKept ==
    UnmarshalReturned =>
        LET failed == dec.result.err # "nil" /\ dec.result.action = NilAction IN
        /\ dec.actionType \notin Kinds => failed
        /\ (/\ dec.actionType \in Kinds
            /\ DataHack(dec.rawAction).keys \ Fields(dec.actionType) # {}) => failed
        /\ dec.result.err = "nil" => GetType(dec.result.action) = dec.actionType

----------------------------------------------------------------------------
\* Vocabulary of the properties of Task.UnmarshalYAML

DecReturned == dec.pc = "returned"
DecFailed == dec.err \notin {"nil", "none"}
DecSucceeded == dec.err = "nil"

\* The keys of a sequence of entries, in order.
KeysOf(entries) == [k \in DOMAIN entries |-> entries[k].key]

\* The types of a sequence of actions, in order.
TypesOf(actions) == [k \in DOMAIN actions |-> GetType(actions[k])]

\* C35: decoding a task fails when the task has no name, when its name is
\* not a non-empty string, and when it has no entry besides the name; when
\* it succeeds, the task has one action for each of the other entries: as
\* many actions as entries, each entry visited once, and the k-th action is
\* the one UnmarshalAction makes of the k-th entry visited.
C35_TaskNeedsNameAndActions ==
    DecReturned =>
        LET entries == dec.rawTask.entries IN
        /\ dec.rawTask.name = "absent" => DecFailed
        /\ dec.rawTask.name # "string" => DecFailed
        /\ entries = <<>> => DecFailed
        /\ DecSucceeded =>
             /\ Len(dec.t.Actions) = Len(entries)
             /\ Len(dec.visited) = Len(entries)
             /\ \A j \in DOMAIN entries :
                  Cardinality({k \in DOMAIN dec.visited :
                                 dec.visited[k] = entries[j].key}) = 1
             /\ \A k \in DOMAIN dec.visited :
                  \E j \in DOMAIN entries :
                     /\ entries[j].key = dec.visited[k]
                     /\ dec.t.Actions[k] =
                          UnmarshalAction(entries[j].key, entries[j].raw).action

\* C35 witness: a task with a name and two actions has been decoded.
C35_Witness ==
    /\ DecReturned
    /\ DecSucceeded
    /\ Len(dec.t.Actions) = 2
    /\ dec.t.Name = "string"

\* C39: two decodings of one task give its Actions in the same order, the
\* order in which the task declares them.
C39_ActionsInDeclaredOrder ==
    (DecReturned /\ DecSucceeded /\ dec.run = 2 /\ dec.first.err = "nil") =>
        /\ dec.t.Actions = dec.first.t.Actions
        /\ TypesOf(dec.t.Actions) = KeysOf(dec.rawTask.entries)
        /\ TypesOf(dec.first.t.Actions) = KeysOf(dec.rawTask.entries)

====
